---------------------------- MODULE Spec2Model ----------------------------
(***************************************************************************)
(* Model of the pelodata-serverless request handlers that work on the      *)
(* single DynamoDB table: addProgram, addChallenge, recommendClass,        *)
(* DeleteByID, deleteChallenge and getPrograms.                            *)
(*                                                                         *)
(* Every invocation is a process slot p.  A handler runs from its entry to *)
(* its first store call in one step (everything before is local to the     *)
(* invocation), and then one step per store call, so that invocations      *)
(* interleave exactly at the store calls.                                  *)
(*                                                                         *)
(* Strings are sequences of one-character strings, so that                 *)
(* strings.TrimSpace, strconv.Itoa and strconv.Atoi are computed.          *)
(***************************************************************************)
EXTENDS Integers, Sequences, FiniteSets, TLC

VARIABLES
    store,      \* the table: Id -> item (an attribute map)
    nextId,     \* number of uuids generated so far
    pc,         \* pc[p]: position of invocation p
    req,        \* req[p]: the inbound request of invocation p
    loc,        \* loc[p]: the handler's local variables
    resp,       \* resp[p]: the response of invocation p, once it has answered
    calls       \* calls[p]: the store and upstream calls invocation p has issued, in order

vars == <<store, nextId, pc, req, loc, resp, calls>>

-----------------------------------------------------------------------------
(* Bounds of the model *)

\* uuids the model can generate (creations that get as far as uuid.New())
MaxIds == 3
\* invocation slots that can be in flight at the same time
NumProcs == 2

Procs == 1..NumProcs

-----------------------------------------------------------------------------
(* net/http status codes *)

StatusOK == 200
StatusBadRequest == 400
StatusUnauthorized == 401
StatusInternalServerError == 500

-----------------------------------------------------------------------------
(* Strings *)

Str(s) == <<s>>
Space == " "
IsSpace(c) == c = " "

RECURSIVE TrimLeft(_)
TrimLeft(s) ==
    IF s # <<>> /\ IsSpace(Head(s)) THEN TrimLeft(Tail(s)) ELSE s

RECURSIVE TrimRight(_)
TrimRight(s) ==
    IF s # <<>> /\ IsSpace(s[Len(s)]) THEN TrimRight(SubSeq(s, 1, Len(s) - 1)) ELSE s

\* strings.TrimSpace
TrimSpace(s) == TrimRight(TrimLeft(s))

Digits == <<"0", "1", "2", "3", "4", "5", "6", "7", "8", "9">>

\* strconv.Itoa
RECURSIVE Itoa(_)
Itoa(n) ==
    IF n < 0 THEN <<"-">> \o Itoa(0 - n)
    ELSE IF n < 10 THEN <<Digits[n + 1]>>
    ELSE Itoa(n \div 10) \o <<Digits[(n % 10) + 1]>>

DigitValue(c) == CHOOSE d \in 0..9 : Digits[d + 1] = c
IsDigit(c) == \E d \in 0..9 : Digits[d + 1] = c

RECURSIVE AtoiDigits(_, _)
AtoiDigits(s, acc) ==
    IF s = <<>> THEN acc ELSE AtoiDigits(Tail(s), acc * 10 + DigitValue(Head(s)))

\* strconv.Atoi: [ok, n]
Atoi(s) ==
    LET neg == s # <<>> /\ Head(s) = "-"
        body == IF s # <<>> /\ Head(s) \in {"-", "+"} THEN Tail(s) ELSE s
    IN  IF body = <<>> \/ \E i \in 1..Len(body) : ~IsDigit(body[i])
        THEN [ok |-> FALSE, n |-> 0]
        ELSE [ok |-> TRUE,
              n |-> IF neg THEN 0 - AtoiDigits(body, 0) ELSE AtoiDigits(body, 0)]

\* uuid.New().String(): the n-th identifier generated
Uuid(n) == <<"#">> \o Itoa(n)


-----------------------------------------------------------------------------
(* Responses: events.APIGatewayProxyResponse and the handler's error value *)

NoData == <<>>

\* the hand-built `{"status": %d, "message": "..."}` body
ErrBody(status, text, args) ==
    [status |-> status, text |-> text, args |-> args, data |-> NoData, goErr |-> FALSE]

\* a reply with the marshalled record (or list of records) as its body
DataBody(status, data) ==
    [status |-> status, text |-> "", args |-> <<>>, data |-> data, goErr |-> FALSE]

\* `return events.APIGatewayProxyResponse{StatusCode: ...}, err`: no body, a Go error
GoErr(status, text) ==
    [status |-> status, text |-> text, args |-> <<>>, data |-> NoData, goErr |-> TRUE]

\* a nil pointer dereference: the invocation panics and writes no response
Panic == [status |-> 0, text |-> "panic", args |-> <<>>, data |-> NoData, goErr |-> TRUE]

NoResp == [status |-> 0, text |-> "", args |-> <<>>, data |-> NoData, goErr |-> FALSE]

\* err.Error() of a failed store call
StoreErrText == <<"E">>

-----------------------------------------------------------------------------
(* shared.Workout and its JSON encoding (the struct tags) *)

Workout(id, title) ==
    [ID |-> id, Title |-> title, Description |-> <<>>, Difficulty |-> 0, Duration |-> 0,
     ImageURL |-> <<>>, InstructorID |-> <<>>, InstructorName |-> <<>>,
     OriginalAirTime |-> 0]

\* json.Marshal of a shared.Workout: one JSON member per tagged field
MarshalWorkout(w) ==
    [id |-> w.ID, title |-> w.Title, description |-> w.Description,
     difficulty_estimate |-> w.Difficulty, duration |-> w.Duration,
     image_url |-> w.ImageURL, instructor_id |-> w.InstructorID,
     instructor_name |-> w.InstructorName, original_air_time |-> w.OriginalAirTime]

\* json.Unmarshal into a shared.Workout
UnmarshalWorkout(j) ==
    [ID |-> j.id, Title |-> j.title, Description |-> j.description,
     Difficulty |-> j.difficulty_estimate, Duration |-> j.duration,
     ImageURL |-> j.image_url, InstructorID |-> j.instructor_id,
     InstructorName |-> j.instructor_name, OriginalAirTime |-> j.original_air_time]

\* json.Marshal(cp.Workouts), a [][]shared.Workout
MarshalWorkouts(ws) ==
    [i \in 1..Len(ws) |-> [k \in 1..Len(ws[i]) |-> MarshalWorkout(ws[i][k])]]

\* json.Unmarshal(item["Workouts"].B, &program.Workouts)
UnmarshalWorkouts(b) ==
    [i \in 1..Len(b) |-> [k \in 1..Len(b[i]) |-> UnmarshalWorkout(b[i][k])]]

-----------------------------------------------------------------------------
(* Dates and the clock *)

\* instants per calendar day in the model's clock: the day's midnight and a later one
TicksPerDay == 2

IsDigits(s) == \A i \in 1..Len(s) : IsDigit(s[i])

IsLeap(y) == (y % 4 = 0 /\ y % 100 # 0) \/ y % 400 = 0

DaysIn(y, m) ==
    IF m = 2 THEN (IF IsLeap(y) THEN 29 ELSE 28)
    ELSE IF m \in {4, 6, 9, 11} THEN 30 ELSE 31

\* position of a calendar day in the order of days (months and days padded to 31/12)
DayOrdinal(y, m, d) == (y * 12 + (m - 1)) * 31 + (d - 1)

\* time.Parse("2006-01-02", s): [ok, t], t the instant of that day's midnight UTC
ParseDate(s) ==
    IF /\ Len(s) = 10
       /\ s[5] = "-"
       /\ s[8] = "-"
       /\ IsDigits(SubSeq(s, 1, 4) \o SubSeq(s, 6, 7) \o SubSeq(s, 9, 10))
    THEN LET y == AtoiDigits(SubSeq(s, 1, 4), 0)
             m == AtoiDigits(SubSeq(s, 6, 7), 0)
             d == AtoiDigits(SubSeq(s, 9, 10), 0)
         IN  IF m \in 1..12 /\ d \in 1..DaysIn(y, m)
             THEN [ok |-> TRUE, t |-> DayOrdinal(y, m, d) * TicksPerDay]
             ELSE [ok |-> FALSE, t |-> 0]
    ELSE [ok |-> FALSE, t |-> 0]

\* t.Before(u)
Before(t, u) == t < u

\* time.Now().Format(time.RFC3339), as far as the model tells instants apart
FormatRFC3339(t) == <<"T">> \o Itoa(t)

\* fmt.Sprintf("%.1f", f) for f given in hundredths (no input of the model is a tie)
FormatTenths(h) ==
    LET tenths == (h + 5) \div 10
    IN  Itoa(tenths \div 10) \o <<".">> \o Itoa(tenths % 10)

-----------------------------------------------------------------------------
(* The table *)

Has(item, attr) == attr \in DOMAIN item

\* db.Scan: the items of the table, from which a filter expression keeps some
ScanItems == {store[id] : id \in DOMAIN store}

\* variant of PutItem: the table holds the new item alone afterwards
PutItemAlone(item) == [id \in {item.Id} |-> item]

\* db.PutItem: the item is stored under its key, replacing an item with that key
PutItem(item) ==
    [k \in DOMAIN store \cup {item.Id} |-> IF k = item.Id THEN item ELSE store[k]]

\* variant of DeleteItem: every item goes with the one that has the key
DeleteItemAll(id) == [k \in {} |-> store[k]]

\* db.DeleteItem: the item with that key is removed, if there is one
DeleteItem(id) == [k \in DOMAIN store \ {id} |-> store[k]]

\* an attribute map with no attribute, and the table with no item
NoItem == [a \in {} |-> TRUE]

\* db.GetItem: the attribute map of the item, empty when there is none
GetItem(id) == IF id \in DOMAIN store THEN store[id] ELSE NoItem


-----------------------------------------------------------------------------
(* Requests: events.APIGatewayV2HTTPRequest, the environment, the clock *)

\* request.Body that json.Unmarshal rejects
Malformed == [malformed |-> TRUE]

\* os.LookupEnv of table_region and table_name: which of the two are set
EnvSet == [table_region |-> TRUE, table_name |-> TRUE]

\* request.Headers["UserID"]: (value, ok)
HeaderUserID(r) == IF r.hasUserID THEN r.UserID ELSE <<>>

\* variant of UserIDMissing: the header is compared before it is trimmed
UserIDMissingNoTrim(r) == ~r.hasUserID \/ HeaderUserID(r) = <<>>

\* `!ok || userID == ""` after userID = strings.TrimSpace(userID)
UserIDMissing(r) == ~r.hasUserID \/ TrimSpace(HeaderUserID(r)) = <<>>

\* request.PathParameters[name]: (value, ok)
HasPath(r, name) == name \in DOMAIN r.path
PathParam(r, name) == IF HasPath(r, name) THEN r.path[name] ELSE <<>>

NoPath == [a \in {} |-> <<>>]
NoLoc == [a \in {} |-> <<>>]
NoReq == [op |-> "none"]

\* shared.GetDBInfo: the errors are built and dropped, err is always nil
GetDBInfo(env) == [region |-> env.table_region, name |-> env.table_name, err |-> FALSE]

\* whether a call on the table can succeed: with an empty TableName the client's
\* parameter validation fails the call before anything is sent
StoreOutcomes(env) == IF env.table_name THEN BOOLEAN ELSE {FALSE}

-----------------------------------------------------------------------------
(* Steps common to the handlers *)

\* the handler returns: the invocation is over
Return(p, r) ==
    /\ pc' = [pc EXCEPT ![p] = "done"]
    /\ resp' = [resp EXCEPT ![p] = r]
    /\ loc' = [loc EXCEPT ![p] = NoLoc]

\* the handler goes on to its next store call
Goto(p, label, l) ==
    /\ pc' = [pc EXCEPT ![p] = label]
    /\ loc' = [loc EXCEPT ![p] = l]
    /\ UNCHANGED resp

\* a new invocation enters slot p
Enter(p, r) ==
    /\ pc[p] \in {"idle", "done"}
    /\ req' = [req EXCEPT ![p] = r]
    /\ calls' = [calls EXCEPT ![p] = <<>>]

Issue(p, call) == calls' = [calls EXCEPT ![p] = Append(@, call)]

-----------------------------------------------------------------------------
(* addProgram: src/unnamed/part_003 *)

\* bodyValidation(cp customProgram): the error text, "" for nil
ProgramBodyValidation(cp) ==
    IF cp.Name = <<>> THEN "name is required in request body"
    ELSE IF cp.NumWeeks < 1 THEN "numWeeks must be a number greater than 0"
    ELSE IF Len(cp.Workouts) < 1 THEN "workouts must not be empty"
    ELSE ""

\* variant of ProgramNameFilter: the public branch also compares the owner
ProgramNameFilterOwnerOnly(cp, item) ==
    /\ Has(item, "Name") /\ item.Name = cp.Name
    /\ Has(item, "CreatedBy") /\ item.CreatedBy = cp.CreatedBy

\* variant of ProgramNameFilter: the name alone decides, whatever the visibility
ProgramNameFilterNameOnly(cp, item) ==
    Has(item, "Name") /\ item.Name = cp.Name

\* the filter expression of nameValidation's scan
ProgramNameFilter(cp, item) ==
    IF cp.Public
    THEN /\ Has(item, "Name") /\ item.Name = cp.Name
         /\ Has(item, "Public") /\ item.Public = TRUE
    ELSE /\ Has(item, "Name") /\ item.Name = cp.Name
         /\ Has(item, "CreatedBy") /\ item.CreatedBy = cp.CreatedBy

\* the item putItem builds
ProgramItem(cp, workoutsData, now) ==
    [Id |-> cp.ID, Name |-> cp.Name, Description |-> cp.Description,
     Public |-> cp.Public,
     EquipmentNeeded |-> {cp.EquipmentNeeded[i] : i \in 1..Len(cp.EquipmentNeeded)},
     NumWeeks |-> Itoa(cp.NumWeeks), Workouts |-> workoutsData,
     CreatedBy |-> cp.CreatedBy, CreatedDate |-> FormatRFC3339(now)]

\* addProgram up to its first store call
AddProgramBegin(p, r) ==
    /\ r.op = "addProgram"
    /\ Enter(p, r)
    /\ UNCHANGED store
    /\ LET userID == TrimSpace(HeaderUserID(r))
           info == GetDBInfo(r.env)
       IN  IF UserIDMissing(r)
           THEN /\ Return(p, ErrBody(StatusBadRequest, "UserID header is required", <<>>))
                /\ UNCHANGED nextId
           ELSE IF info.err
           THEN /\ Return(p, GoErr(StatusInternalServerError, "GetDBInfo"))
                /\ UNCHANGED nextId
           ELSE IF r.body = Malformed
           THEN /\ Return(p, ErrBody(StatusBadRequest, "Invalid request body", <<>>))
                /\ UNCHANGED nextId
           ELSE /\ nextId < MaxIds
                /\ nextId' = nextId + 1
                /\ LET cp == [r.body EXCEPT !.ID = Uuid(nextId + 1),
                                            !.CreatedBy = userID,
                                            !.Name = TrimSpace(r.body.Name),
                                            !.Description = TrimSpace(r.body.Description)]
                       workoutsData == MarshalWorkouts(cp.Workouts)
                       err == ProgramBodyValidation(cp)
                   IN  IF err # ""
                       THEN Return(p, ErrBody(StatusBadRequest, err, <<>>))
                       ELSE Goto(p, "scan", [cp |-> cp, workoutsData |-> workoutsData])

\* variant of AddProgramScan: the put follows whatever the scan returned
AddProgramScanProceeds(p) ==
    /\ pc[p] = "scan"
    /\ req[p].op = "addProgram"
    /\ Issue(p, "Scan")
    /\ UNCHANGED <<store, nextId, req>>
    /\ \E ok \in StoreOutcomes(req[p].env) :
        IF ~ok
        THEN Return(p, ErrBody(StatusInternalServerError,
                               "Unable to get existing programs: %s", <<StoreErrText>>))
        ELSE Goto(p, "put", loc[p])

\* nameValidation: the scan and what addProgram does with its result
AddProgramScan(p) ==
    /\ pc[p] = "scan"
    /\ req[p].op = "addProgram"
    /\ Issue(p, "Scan")
    /\ UNCHANGED <<store, nextId, req>>
    /\ \E ok \in StoreOutcomes(req[p].env) :
        LET cp == loc[p].cp
            items == {item \in ScanItems : ProgramNameFilter(cp, item)}
        IN  IF ~ok
            THEN Return(p, ErrBody(StatusInternalServerError,
                                   "Unable to get existing programs: %s", <<StoreErrText>>))
            ELSE IF Cardinality(items) > 0
            THEN Return(p, ErrBody(StatusBadRequest,
                                   "A program with the name %s already exists", <<cp.Name>>))
            ELSE Goto(p, "put", loc[p])

\* variant of AddProgramPut: a conditional write that re-checks the name
AddProgramPutConditional(p) ==
    /\ pc[p] = "put"
    /\ req[p].op = "addProgram"
    /\ Issue(p, "PutItem")
    /\ UNCHANGED <<nextId, req>>
    /\ \E ok \in StoreOutcomes(req[p].env) :
        LET cp == loc[p].cp
        IN  IF ~ok
            THEN /\ Return(p, ErrBody(StatusInternalServerError,
                                      "Unable to save custom program: %s", <<StoreErrText>>))
                 /\ UNCHANGED store
            ELSE IF {item \in ScanItems : ProgramNameFilter(cp, item)} # {}
            THEN /\ Return(p, ErrBody(StatusBadRequest,
                                      "A program with the name %s already exists", <<cp.Name>>))
                 /\ UNCHANGED store
            ELSE /\ store' = PutItem(ProgramItem(cp, loc[p].workoutsData, req[p].now))
                 /\ Return(p, DataBody(StatusOK, cp))

\* putItem and the reply
AddProgramPut(p) ==
    /\ pc[p] = "put"
    /\ req[p].op = "addProgram"
    /\ Issue(p, "PutItem")
    /\ UNCHANGED <<nextId, req>>
    /\ \E ok \in StoreOutcomes(req[p].env) :
        LET cp == loc[p].cp
        IN  IF ~ok
            THEN /\ Return(p, ErrBody(StatusInternalServerError,
                                      "Unable to save custom program: %s", <<StoreErrText>>))
                 /\ UNCHANGED store
            ELSE /\ store' = PutItem(ProgramItem(cp, loc[p].workoutsData, req[p].now))
                 /\ Return(p, DataBody(StatusOK, cp))


-----------------------------------------------------------------------------
(* addChallenge: src/services/addChallenge/addChallenge.go *)

\* variant of ChallengeBodyValidation: the start date is compared with the midnight that
\* starts the current day
ChallengeBodyValidationByDay(c, now) ==
    LET sDate == ParseDate(c.StartDate)
        eDate == ParseDate(c.EndDate)
    IN  IF c.Name = <<>> THEN "name is required in request body"
        ELSE IF c.Difficulty <= 0 THEN "difficulty must be a number greater than 0"
        ELSE IF c.NumWorkoutGoal < 1 THEN "numWorkoutGoal must be a number greater than 0"
        ELSE IF c.StartDate = <<>> THEN "startDate is required in request body"
        ELSE IF ~sDate.ok THEN "startDate must be in the format of YYYY-MM-DD"
        ELSE IF Before(sDate.t, (now \div TicksPerDay) * TicksPerDay)
             THEN "startDate must not be before today"
        ELSE IF c.EndDate = <<>> THEN "endDate is required in request body"
        ELSE IF ~eDate.ok THEN "endDate must be in the format of YYYY-MM-DD"
        ELSE IF Before(eDate.t, sDate.t) THEN "endDate must not be before startDate"
        ELSE IF Len(c.WorkoutTypes) < 1 THEN "workoutTypes must not be empty"
        ELSE ""

\* variant of ChallengeBodyValidation: the workout types are looked at first
ChallengeBodyValidationTypesFirst(c, now) ==
    LET sDate == ParseDate(c.StartDate)
        eDate == ParseDate(c.EndDate)
    IN  IF Len(c.WorkoutTypes) < 1 THEN "workoutTypes must not be empty"
        ELSE IF c.Name = <<>> THEN "name is required in request body"
        ELSE IF c.Difficulty <= 0 THEN "difficulty must be a number greater than 0"
        ELSE IF c.NumWorkoutGoal < 1 THEN "numWorkoutGoal must be a number greater than 0"
        ELSE IF c.StartDate = <<>> THEN "startDate is required in request body"
        ELSE IF ~sDate.ok THEN "startDate must be in the format of YYYY-MM-DD"
        ELSE IF Before(sDate.t, now) THEN "startDate must not be before today"
        ELSE IF c.EndDate = <<>> THEN "endDate is required in request body"
        ELSE IF ~eDate.ok THEN "endDate must be in the format of YYYY-MM-DD"
        ELSE IF Before(eDate.t, sDate.t) THEN "endDate must not be before startDate"
        ELSE ""

\* variant of ChallengeBodyValidation: the two dates are not compared
ChallengeBodyValidationNoOrder(c, now) ==
    LET sDate == ParseDate(c.StartDate)
        eDate == ParseDate(c.EndDate)
    IN  IF c.Name = <<>> THEN "name is required in request body"
        ELSE IF c.Difficulty <= 0 THEN "difficulty must be a number greater than 0"
        ELSE IF c.NumWorkoutGoal < 1 THEN "numWorkoutGoal must be a number greater than 0"
        ELSE IF c.StartDate = <<>> THEN "startDate is required in request body"
        ELSE IF ~sDate.ok THEN "startDate must be in the format of YYYY-MM-DD"
        ELSE IF Before(sDate.t, now) THEN "startDate must not be before today"
        ELSE IF c.EndDate = <<>> THEN "endDate is required in request body"
        ELSE IF ~eDate.ok THEN "endDate must be in the format of YYYY-MM-DD"
        ELSE IF Len(c.WorkoutTypes) < 1 THEN "workoutTypes must not be empty"
        ELSE ""

\* bodyValidation(c customChallenge) at the instant now: the error text, "" for nil
ChallengeBodyValidation(c, now) ==
    LET sDate == ParseDate(c.StartDate)
        eDate == ParseDate(c.EndDate)
    IN  IF c.Name = <<>> THEN "name is required in request body"
        ELSE IF c.Difficulty <= 0 THEN "difficulty must be a number greater than 0"
        ELSE IF c.NumWorkoutGoal < 1 THEN "numWorkoutGoal must be a number greater than 0"
        ELSE IF c.StartDate = <<>> THEN "startDate is required in request body"
        ELSE IF ~sDate.ok THEN "startDate must be in the format of YYYY-MM-DD"
        ELSE IF Before(sDate.t, now) THEN "startDate must not be before today"
        ELSE IF c.EndDate = <<>> THEN "endDate is required in request body"
        ELSE IF ~eDate.ok THEN "endDate must be in the format of YYYY-MM-DD"
        ELSE IF Before(eDate.t, sDate.t) THEN "endDate must not be before startDate"
        ELSE IF Len(c.WorkoutTypes) < 1 THEN "workoutTypes must not be empty"
        ELSE ""

\* the filter expression of nameValidation's scan
ChallengeNameFilter(c, item) ==
    IF c.Public
    THEN /\ Has(item, "Name") /\ item.Name = c.Name
         /\ Has(item, "Public") /\ item.Public = TRUE
    ELSE /\ Has(item, "Name") /\ item.Name = c.Name
         /\ Has(item, "CreatedBy") /\ item.CreatedBy = c.CreatedBy

\* the item putItem builds
ChallengeItem(c) ==
    [Id |-> c.ID, CreatedBy |-> c.CreatedBy, Name |-> c.Name,
     Description |-> c.Description, Public |-> c.Public,
     EquipmentNeeded |-> {c.EquipmentNeeded[i] : i \in 1..Len(c.EquipmentNeeded)},
     Difficulty |-> FormatTenths(c.Difficulty),
     StartDate |-> c.StartDate, EndDate |-> c.EndDate,
     NumWorkoutGoal |-> Itoa(c.NumWorkoutGoal),
     WorkoutTypes |-> {c.WorkoutTypes[i] : i \in 1..Len(c.WorkoutTypes)}]

\* addChallenge up to its first store call
AddChallengeBegin(p, r) ==
    /\ r.op = "addChallenge"
    /\ Enter(p, r)
    /\ UNCHANGED store
    /\ LET userID == TrimSpace(HeaderUserID(r))
           info == GetDBInfo(r.env)
       IN  IF UserIDMissing(r)
           THEN /\ Return(p, ErrBody(StatusBadRequest, "UserID header is required", <<>>))
                /\ UNCHANGED nextId
           ELSE IF info.err
           THEN /\ Return(p, GoErr(StatusInternalServerError, "GetDBInfo"))
                /\ UNCHANGED nextId
           ELSE IF r.body = Malformed
           THEN /\ Return(p, ErrBody(StatusBadRequest, "Invalid request body", <<>>))
                /\ UNCHANGED nextId
           ELSE /\ nextId < MaxIds
                /\ nextId' = nextId + 1
                /\ LET c == [r.body EXCEPT !.ID = Uuid(nextId + 1), !.CreatedBy = userID]
                       err == ChallengeBodyValidation(c, r.now)
                   IN  IF err # ""
                       THEN Return(p, ErrBody(StatusBadRequest, err, <<>>))
                       ELSE Goto(p, "scan", [c |-> c])

\* variant of AddChallengeScan: a failed scan is issued once more
AddChallengeScanRetries(p) ==
    /\ pc[p] = "scan"
    /\ req[p].op = "addChallenge"
    /\ Issue(p, "Scan")
    /\ UNCHANGED <<store, nextId, req>>
    /\ \E ok \in StoreOutcomes(req[p].env) :
        LET c == loc[p].c
            items == {item \in ScanItems : ChallengeNameFilter(c, item)}
        IN  IF ~ok /\ calls[p] = <<>>
            THEN Goto(p, "scan", loc[p])
            ELSE IF ~ok
            THEN Return(p, ErrBody(StatusInternalServerError,
                                   "Unable to get existing challenges: %s",
                                   <<StoreErrText>>))
            ELSE IF Cardinality(items) > 0
            THEN Return(p, ErrBody(StatusBadRequest,
                                   "A challenge with the name %s already exists",
                                   <<c.Name>>))
            ELSE Goto(p, "put", loc[p])

\* nameValidation: the scan and what addChallenge does with its result
AddChallengeScan(p) ==
    /\ pc[p] = "scan"
    /\ req[p].op = "addChallenge"
    /\ Issue(p, "Scan")
    /\ UNCHANGED <<store, nextId, req>>
    /\ \E ok \in StoreOutcomes(req[p].env) :
        LET c == loc[p].c
            items == {item \in ScanItems : ChallengeNameFilter(c, item)}
        IN  IF ~ok
            THEN Return(p, ErrBody(StatusInternalServerError,
                                   "Unable to get existing challenges: %s", <<StoreErrText>>))
            ELSE IF Cardinality(items) > 0
            THEN Return(p, ErrBody(StatusBadRequest,
                                   "A challenge with the name %s already exists", <<c.Name>>))
            ELSE Goto(p, "put", loc[p])

\* variant of AddChallengePut: the error of putItem is dropped
AddChallengePutIgnoresError(p) ==
    /\ pc[p] = "put"
    /\ req[p].op = "addChallenge"
    /\ Issue(p, "PutItem")
    /\ UNCHANGED <<nextId, req>>
    /\ \E ok \in StoreOutcomes(req[p].env) :
        LET c == loc[p].c
        IN  IF ~ok
            THEN /\ Return(p, DataBody(StatusOK, c))
                 /\ UNCHANGED store
            ELSE /\ store' = PutItem(ChallengeItem(c))
                 /\ Return(p, DataBody(StatusOK, c))

\* putItem and the reply
AddChallengePut(p) ==
    /\ pc[p] = "put"
    /\ req[p].op = "addChallenge"
    /\ Issue(p, "PutItem")
    /\ UNCHANGED <<nextId, req>>
    /\ \E ok \in StoreOutcomes(req[p].env) :
        LET c == loc[p].c
        IN  IF ~ok
            THEN /\ Return(p, ErrBody(StatusInternalServerError,
                                      "Unable to save custom challenge: %s", <<StoreErrText>>))
                 /\ UNCHANGED store
            ELSE /\ store' = PutItem(ChallengeItem(c))
                 /\ Return(p, DataBody(StatusOK, c))

-----------------------------------------------------------------------------
(* recommendClass: src/services/recommendClass/recommendClass.go *)

\* variant of RecommendationBodyValidation: the creator is not compared
RecommendationBodyValidationNoSelf(rec) ==
    IF rec.RecommendedFor = <<>> THEN "recommendedFor is required in request body"
    ELSE ""

\* bodyValidation(r recommendation): the error text, "" for nil
RecommendationBodyValidation(rec) ==
    IF rec.RecommendedFor = <<>> THEN "recommendedFor is required in request body"
    ELSE IF rec.RecommendedFor = rec.CreatedBy THEN "Unable to recommend a class to yourself"
    ELSE ""

\* the filter expression of recommendationValidation's scan
RecommendationFilter(rec, workoutData, item) ==
    /\ Has(item, "CreatedBy") /\ item.CreatedBy = rec.CreatedBy
    /\ Has(item, "RecommendedFor") /\ item.RecommendedFor = rec.RecommendedFor
    /\ Has(item, "Workout") /\ item.Workout = workoutData

\* the item putItem builds
RecommendationItem(rec, workoutData) ==
    [Id |-> rec.ID, CreatedBy |-> rec.CreatedBy, RecommendedFor |-> rec.RecommendedFor,
     Workout |-> workoutData]

\* variant of RecommendClassBegin: an id and a creator the body carries are kept
RecommendClassBeginKeepsBody(p, r) ==
    /\ r.op = "recommendClass"
    /\ Enter(p, r)
    /\ UNCHANGED store
    /\ LET userID == TrimSpace(HeaderUserID(r))
           info == GetDBInfo(r.env)
       IN  IF UserIDMissing(r)
           THEN /\ Return(p, ErrBody(StatusBadRequest, "UserID header is required", <<>>))
                /\ UNCHANGED nextId
           ELSE IF info.err
           THEN /\ Return(p, GoErr(StatusInternalServerError, "GetDBInfo"))
                /\ UNCHANGED nextId
           ELSE IF r.body = Malformed
           THEN /\ Return(p, ErrBody(StatusBadRequest, "Invalid request body", <<>>))
                /\ UNCHANGED nextId
           ELSE /\ nextId < MaxIds
                /\ nextId' = nextId + 1
                /\ LET rec == [r.body EXCEPT
                                !.ID = IF @ = <<>> THEN Uuid(nextId + 1) ELSE @,
                                !.CreatedBy = IF @ = <<>> THEN userID ELSE @]
                       workoutData == MarshalWorkout(rec.Workout)
                       err == RecommendationBodyValidation(rec)
                   IN  IF err # ""
                       THEN Return(p, ErrBody(StatusBadRequest, err, <<>>))
                       ELSE Goto(p, "scan", [rec |-> rec, workoutData |-> workoutData])

\* recommendClass up to its first store call
RecommendClassBegin(p, r) ==
    /\ r.op = "recommendClass"
    /\ Enter(p, r)
    /\ UNCHANGED store
    /\ LET userID == TrimSpace(HeaderUserID(r))
           info == GetDBInfo(r.env)
       IN  IF UserIDMissing(r)
           THEN /\ Return(p, ErrBody(StatusBadRequest, "UserID header is required", <<>>))
                /\ UNCHANGED nextId
           ELSE IF info.err
           THEN /\ Return(p, GoErr(StatusInternalServerError, "GetDBInfo"))
                /\ UNCHANGED nextId
           ELSE IF r.body = Malformed
           THEN /\ Return(p, ErrBody(StatusBadRequest, "Invalid request body", <<>>))
                /\ UNCHANGED nextId
           ELSE /\ nextId < MaxIds
                /\ nextId' = nextId + 1
                /\ LET rec == [r.body EXCEPT !.ID = Uuid(nextId + 1), !.CreatedBy = userID]
                       workoutData == MarshalWorkout(rec.Workout)
                       err == RecommendationBodyValidation(rec)
                   IN  IF err # ""
                       THEN Return(p, ErrBody(StatusBadRequest, err, <<>>))
                       ELSE Goto(p, "scan", [rec |-> rec, workoutData |-> workoutData])

\* recommendationValidation: the scan and what recommendClass does with its result
RecommendClassScan(p) ==
    /\ pc[p] = "scan"
    /\ req[p].op = "recommendClass"
    /\ Issue(p, "Scan")
    /\ UNCHANGED <<store, nextId, req>>
    /\ \E ok \in StoreOutcomes(req[p].env) :
        LET rec == loc[p].rec
            items == {item \in ScanItems : RecommendationFilter(rec, loc[p].workoutData, item)}
        IN  IF ~ok
            THEN Return(p, ErrBody(StatusInternalServerError,
                                   "Unable to get existing recommendations: %s",
                                   <<StoreErrText>>))
            ELSE IF Cardinality(items) > 0
            THEN Return(p, ErrBody(StatusBadRequest,
                                   "That recommendation already exists", <<>>))
            ELSE Goto(p, "put", loc[p])

\* putItem and the reply
RecommendClassPut(p) ==
    /\ pc[p] = "put"
    /\ req[p].op = "recommendClass"
    /\ Issue(p, "PutItem")
    /\ UNCHANGED <<nextId, req>>
    /\ \E ok \in StoreOutcomes(req[p].env) :
        LET rec == loc[p].rec
        IN  IF ~ok
            THEN /\ Return(p, ErrBody(StatusInternalServerError,
                                      "Unable to save recommendation: %s", <<StoreErrText>>))
                 /\ UNCHANGED store
            ELSE /\ store' = PutItem(RecommendationItem(rec, loc[p].workoutData))
                 /\ Return(p, DataBody(StatusOK, rec))


-----------------------------------------------------------------------------
(* shared.DeleteByID: src/services/shared/delete.go *)

validPathParams == <<"challengeId", "programId", "recommendationId">>

\* strings.Replace(p, "Id", "", 1) on the names of validPathParams
DataTypeOf(param) ==
    CASE param = "challengeId" -> "challenge"
      [] param = "programId" -> "program"
      [] param = "recommendationId" -> "recommendation"

\* the loop over validPathParams: the first one the request carries
FirstPathParam(r) ==
    LET present == {i \in 1..Len(validPathParams) : HasPath(r, validPathParams[i])}
    IN  IF present = {}
        THEN [dataType |-> "", id |-> <<>>]
        ELSE LET i == CHOOSE k \in present : \A j \in present : k <= j
             IN  [dataType |-> DataTypeOf(validPathParams[i]),
                  id |-> TrimSpace(r.path[validPathParams[i]])]

\* DeleteByID up to its first store call
DeleteByIDBegin(p, r) ==
    /\ r.op = "DeleteByID"
    /\ Enter(p, r)
    /\ UNCHANGED <<store, nextId>>
    /\ LET userID == TrimSpace(HeaderUserID(r))
           target == FirstPathParam(r)
       IN  IF UserIDMissing(r)
           THEN Return(p, ErrBody(StatusBadRequest, "UserID header is required", <<>>))
           ELSE IF ~r.env.table_region
           THEN Return(p, GoErr(StatusInternalServerError,
                                "table_region env var doesn't exist"))
           ELSE IF ~r.env.table_name
           THEN Return(p, GoErr(StatusInternalServerError,
                                "table_name env var doesn't exist"))
           ELSE Goto(p, "get", [userID |-> userID, id |-> target.id,
                                dataType |-> target.dataType])

\* variant of DeleteByIDGet: the owner of the item is not compared
DeleteByIDGetAnyUser(p) ==
    /\ pc[p] = "get"
    /\ req[p].op = "DeleteByID"
    /\ Issue(p, "GetItem")
    /\ UNCHANGED <<store, nextId, req>>
    /\ \E ok \in StoreOutcomes(req[p].env) :
        LET item == GetItem(loc[p].id)
            dataType == loc[p].dataType
        IN  IF ~ok
            THEN Return(p, ErrBody(StatusInternalServerError, "Unable to get %s: %s",
                                   <<Str(dataType), StoreErrText>>))
            ELSE IF ~Has(item, "CreatedBy")
            THEN Return(p, ErrBody(StatusBadRequest, "The %s doesn't exist",
                                   <<Str(dataType)>>))
            ELSE Goto(p, "delete", loc[p])

\* db.GetItem and the checks on the item
DeleteByIDGet(p) ==
    /\ pc[p] = "get"
    /\ req[p].op = "DeleteByID"
    /\ Issue(p, "GetItem")
    /\ UNCHANGED <<store, nextId, req>>
    /\ \E ok \in StoreOutcomes(req[p].env) :
        LET item == GetItem(loc[p].id)
            dataType == loc[p].dataType
        IN  IF ~ok
            THEN Return(p, ErrBody(StatusInternalServerError, "Unable to get %s: %s",
                                   <<Str(dataType), StoreErrText>>))
            ELSE IF ~Has(item, "CreatedBy")
            THEN Return(p, ErrBody(StatusBadRequest, "The %s doesn't exist",
                                   <<Str(dataType)>>))
            ELSE IF item.CreatedBy # loc[p].userID
            THEN Return(p, ErrBody(StatusUnauthorized,
                                   "Must be the owner of the %s to delete it",
                                   <<Str(dataType)>>))
            ELSE Goto(p, "delete", loc[p])

\* db.DeleteItem and the reply
DeleteByIDDelete(p) ==
    /\ pc[p] = "delete"
    /\ req[p].op = "DeleteByID"
    /\ Issue(p, "DeleteItem")
    /\ UNCHANGED <<nextId, req>>
    /\ \E ok \in StoreOutcomes(req[p].env) :
        LET dataType == loc[p].dataType
        IN  IF ~ok
            THEN /\ Return(p, ErrBody(StatusInternalServerError, "Unable to delete %s: %s",
                                      <<Str(dataType), StoreErrText>>))
                 /\ UNCHANGED store
            ELSE /\ store' = DeleteItem(loc[p].id)
                 /\ Return(p, ErrBody(StatusOK, "%s deleted", <<Str(dataType)>>))

-----------------------------------------------------------------------------
(* deleteChallenge: src/services/deleteChallenge/deleteChallenge.go *)

\* deleteChallenge up to its first store call
DeleteChallengeBegin(p, r) ==
    /\ r.op = "deleteChallenge"
    /\ Enter(p, r)
    /\ UNCHANGED <<store, nextId>>
    /\ LET userID == TrimSpace(HeaderUserID(r))
           challengeID == TrimSpace(PathParam(r, "challengeId"))
       IN  IF UserIDMissing(r)
           THEN Return(p, ErrBody(StatusBadRequest, "UserID header is required", <<>>))
           ELSE IF ~r.env.table_region
           THEN Return(p, GoErr(StatusInternalServerError,
                                "table_region env var doesn't exist"))
           ELSE IF ~r.env.table_name
           THEN Return(p, GoErr(StatusInternalServerError,
                                "table_name env var doesn't exist"))
           ELSE IF ~HasPath(r, "challengeId") \/ challengeID = <<>>
           THEN Return(p, ErrBody(StatusBadRequest,
                    "Path parameter challenge_id is required: /deleteChallenge/{challenge_id}",
                    <<>>))
           ELSE Goto(p, "get", [userID |-> userID, id |-> challengeID])

\* variant of DeleteChallengeGet: CreatedBy is dereferenced without the ok check
DeleteChallengeGetUnchecked(p) ==
    /\ pc[p] = "get"
    /\ req[p].op = "deleteChallenge"
    /\ Issue(p, "GetItem")
    /\ UNCHANGED <<store, nextId, req>>
    /\ \E ok \in StoreOutcomes(req[p].env) :
        LET item == GetItem(loc[p].id)
        IN  IF ~ok
            THEN Return(p, ErrBody(StatusInternalServerError, "Unable to get challenge: %s",
                                   <<StoreErrText>>))
            ELSE IF ~Has(item, "CreatedBy")
            THEN Return(p, Panic)
            ELSE IF item.CreatedBy # loc[p].userID
            THEN Return(p, ErrBody(StatusUnauthorized,
                                   "Must be the owner of the challenge to delete it", <<>>))
            ELSE Goto(p, "delete", loc[p])

\* db.GetItem and the checks on the item
DeleteChallengeGet(p) ==
    /\ pc[p] = "get"
    /\ req[p].op = "deleteChallenge"
    /\ Issue(p, "GetItem")
    /\ UNCHANGED <<store, nextId, req>>
    /\ \E ok \in StoreOutcomes(req[p].env) :
        LET item == GetItem(loc[p].id)
        IN  IF ~ok
            THEN Return(p, ErrBody(StatusInternalServerError, "Unable to get challenge: %s",
                                   <<StoreErrText>>))
            ELSE IF ~Has(item, "CreatedBy")
            THEN Return(p, ErrBody(StatusBadRequest, "The challenge doesn't exist", <<>>))
            ELSE IF item.CreatedBy # loc[p].userID
            THEN Return(p, ErrBody(StatusUnauthorized,
                                   "Must be the owner of the challenge to delete it", <<>>))
            ELSE Goto(p, "delete", loc[p])

\* db.DeleteItem and the reply
DeleteChallengeDelete(p) ==
    /\ pc[p] = "delete"
    /\ req[p].op = "deleteChallenge"
    /\ Issue(p, "DeleteItem")
    /\ UNCHANGED <<nextId, req>>
    /\ \E ok \in StoreOutcomes(req[p].env) :
        IF ~ok
        THEN /\ Return(p, ErrBody(StatusInternalServerError, "Unable to delete challenge: %s",
                                  <<StoreErrText>>))
             /\ UNCHANGED store
        ELSE /\ store' = DeleteItem(loc[p].id)
             /\ Return(p, ErrBody(StatusOK, "Challenge deleted", <<>>))

-----------------------------------------------------------------------------
(* getPrograms: src/services/getPrograms/getPrograms.go *)

\* the attributes formatOutput dereferences without a nil check
ProgramAttrs ==
    {"Id", "Name", "Description", "Public", "CreatedBy", "CreatedDate",
     "EquipmentNeeded", "NumWeeks", "Workouts"}

\* the orders in which the store may hand back the members of a string set
Orders(set) ==
    {s \in [1..Cardinality(set) -> set] : \A i, j \in 1..Cardinality(set) :
                                              s[i] = s[j] => i = j}

\* variant of FormatOutput: the description is read from the Name attribute
FormatOutputDescriptionFromName(item, equipment) ==
    IF ~(ProgramAttrs \subseteq DOMAIN item) THEN [kind |-> "panic"]
    ELSE IF ~Atoi(item.NumWeeks).ok THEN [kind |-> "error"]
    ELSE [kind |-> "ok",
          program |->
            [ID |-> item.Id, Name |-> item.Name, Description |-> item.Name,
             Public |-> item.Public, EquipmentNeeded |-> equipment,
             NumWeeks |-> Atoi(item.NumWeeks).n,
             Workouts |-> UnmarshalWorkouts(item.Workouts),
             CreatedBy |-> item.CreatedBy, CreatedDate |-> item.CreatedDate]]

\* formatOutput(item): the customProgram it returns, for the order the string set
\* came back in; "panic" when an attribute is absent, "error" when Atoi fails
FormatOutput(item, equipment) ==
    IF ~(ProgramAttrs \subseteq DOMAIN item) THEN [kind |-> "panic"]
    ELSE IF ~Atoi(item.NumWeeks).ok THEN [kind |-> "error"]
    ELSE [kind |-> "ok",
          program |->
            [ID |-> item.Id, Name |-> item.Name, Description |-> item.Description,
             Public |-> item.Public, EquipmentNeeded |-> equipment,
             NumWeeks |-> Atoi(item.NumWeeks).n,
             Workouts |-> UnmarshalWorkouts(item.Workouts),
             CreatedBy |-> item.CreatedBy, CreatedDate |-> item.CreatedDate]]

\* every result formatOutput can have on the item
FormatOutputs(item) ==
    IF Has(item, "EquipmentNeeded")
    THEN {FormatOutput(item, e) : e \in Orders(item.EquipmentNeeded)}
    ELSE {FormatOutput(item, <<>>)}

\* the filter expression of getAllPrograms' scan
AllProgramsFilter(userID, item) ==
    \/ Has(item, "Public") /\ item.Public = TRUE
    \/ Has(item, "CreatedBy") /\ item.CreatedBy = userID

\* getPrograms up to its first store call
GetProgramsBegin(p, r) ==
    /\ r.op = "getPrograms"
    /\ Enter(p, r)
    /\ UNCHANGED <<store, nextId>>
    /\ LET userID == TrimSpace(HeaderUserID(r))
           info == GetDBInfo(r.env)
           programID == TrimSpace(PathParam(r, "programId"))
       IN  IF UserIDMissing(r)
           THEN Return(p, ErrBody(StatusBadRequest, "UserID header is required", <<>>))
           ELSE IF info.err
           THEN Return(p, GoErr(StatusInternalServerError, "GetDBInfo"))
           ELSE IF Len(programID) > 0
           THEN Goto(p, "get", [userID |-> userID, programID |-> programID])
           ELSE Goto(p, "scan", [userID |-> userID])

\* getProgramByID
GetProgramByID(p) ==
    /\ pc[p] = "get"
    /\ req[p].op = "getPrograms"
    /\ Issue(p, "GetItem")
    /\ UNCHANGED <<store, nextId, req>>
    /\ \E ok \in StoreOutcomes(req[p].env) :
        LET item == GetItem(loc[p].programID)
        IN  IF ~ok
            THEN Return(p, ErrBody(StatusInternalServerError, "Unable to get program: %s",
                                   <<StoreErrText>>))
            ELSE IF DOMAIN item = {}
            THEN Return(p, ErrBody(StatusBadRequest, "Unable to find program %s",
                                   <<loc[p].programID>>))
            ELSE IF ~Has(item, "Public") \/ ~Has(item, "CreatedBy")
            THEN Return(p, Panic)
            ELSE IF item.Public = FALSE /\ item.CreatedBy # loc[p].userID
            THEN Return(p, ErrBody(StatusUnauthorized, "Unauthorized to view this program",
                                   <<>>))
            ELSE \E out \in FormatOutputs(item) :
                    IF out.kind = "panic" THEN Return(p, Panic)
                    ELSE IF out.kind = "error"
                    THEN Return(p, GoErr(StatusInternalServerError,
                                         "Unable to convert NumWeeks to int"))
                    ELSE Return(p, DataBody(StatusOK, out.program))

\* getAllPrograms
GetAllPrograms(p) ==
    /\ pc[p] = "scan"
    /\ req[p].op = "getPrograms"
    /\ Issue(p, "Scan")
    /\ UNCHANGED <<store, nextId, req>>
    /\ \E ok \in StoreOutcomes(req[p].env) :
        LET items == {item \in ScanItems : AllProgramsFilter(loc[p].userID, item)}
            outs == UNION {FormatOutputs(i) : i \in items}
        IN  IF ~ok
            THEN Return(p, ErrBody(StatusInternalServerError,
                                   "Unable to get existing programs: %s", <<StoreErrText>>))
            ELSE IF Cardinality(items) = 0
            THEN Return(p, DataBody(StatusOK, <<>>))
            ELSE IF \E o \in outs : o.kind = "panic"
            THEN Return(p, Panic)
            ELSE IF \E o \in outs : o.kind = "error"
            THEN Return(p, GoErr(StatusInternalServerError,
                                 "Unable to convert NumWeeks to int"))
            ELSE \E order \in Orders(items) :
                 \E programs \in [1..Cardinality(items) -> {o.program : o \in outs}] :
                    /\ \A k \in 1..Cardinality(items) :
                          \E o \in FormatOutputs(order[k]) : o.program = programs[k]
                    /\ Return(p, DataBody(StatusOK, programs))


-----------------------------------------------------------------------------
(* getChallenges: src/services/getChallenges/getChallenges.go *)

\* strconv.ParseFloat on a decimal "i.f": [ok, h], h the value in hundredths
ParseFloat(s) ==
    LET dots == {i \in 1..Len(s) : s[i] = "."}
    IN  IF s = <<>> \/ Cardinality(dots) > 1 THEN [ok |-> FALSE, h |-> 0]
        ELSE LET dot == IF dots = {} THEN Len(s) + 1 ELSE CHOOSE i \in dots : TRUE
                 int == SubSeq(s, 1, dot - 1)
                 frac == SubSeq(s, dot + 1, Len(s))
             IN  IF int \o frac = <<>> \/ ~IsDigits(int \o frac)
                 THEN [ok |-> FALSE, h |-> 0]
                 ELSE [ok |-> TRUE,
                       h |-> AtoiDigits(int, 0) * 100
                             + AtoiDigits(SubSeq(frac \o <<"0", "0">>, 1, 2), 0)]

\* the attributes formatOutput dereferences without a nil check
ChallengeAttrs ==
    {"Id", "CreatedBy", "Name", "Description", "Public", "EquipmentNeeded", "Difficulty",
     "StartDate", "EndDate", "NumWorkoutGoal", "WorkoutTypes"}

\* formatOutput(item): the customChallenge it returns, for the orders the two string
\* sets came back in; "panic" when an attribute is absent, "error" when a number does
\* not parse
ChallengeFormatOutput(item, equipment, types) ==
    IF ~(ChallengeAttrs \subseteq DOMAIN item) THEN [kind |-> "panic"]
    ELSE IF ~ParseFloat(item.Difficulty).ok THEN [kind |-> "error"]
    ELSE IF ~Atoi(item.NumWorkoutGoal).ok THEN [kind |-> "error"]
    ELSE [kind |-> "ok",
          challenge |->
            [ID |-> item.Id, CreatedBy |-> item.CreatedBy, Name |-> item.Name,
             Description |-> item.Description, Public |-> item.Public,
             EquipmentNeeded |-> equipment,
             Difficulty |-> ParseFloat(item.Difficulty).h,
             StartDate |-> item.StartDate, EndDate |-> item.EndDate,
             NumWorkoutGoal |-> Atoi(item.NumWorkoutGoal).n,
             WorkoutTypes |-> types]]

\* every result formatOutput can have on the item
ChallengeFormatOutputs(item) ==
    IF Has(item, "EquipmentNeeded") /\ Has(item, "WorkoutTypes")
    THEN {ChallengeFormatOutput(item, e, t) :
            e \in Orders(item.EquipmentNeeded), t \in Orders(item.WorkoutTypes)}
    ELSE {ChallengeFormatOutput(item, <<>>, <<>>)}

\* the filter expression of getAllChallenges' scan
AllChallengesFilter(userID, item) ==
    \/ Has(item, "Public") /\ item.Public = TRUE
    \/ Has(item, "CreatedBy") /\ item.CreatedBy = userID

\* getChallenges up to its first store call
GetChallengesBegin(p, r) ==
    /\ r.op = "getChallenges"
    /\ Enter(p, r)
    /\ UNCHANGED <<store, nextId>>
    /\ LET userID == TrimSpace(HeaderUserID(r))
           info == GetDBInfo(r.env)
           challengeID == TrimSpace(PathParam(r, "challengeId"))
       IN  IF UserIDMissing(r)
           THEN Return(p, ErrBody(StatusBadRequest, "UserID header is required", <<>>))
           ELSE IF info.err
           THEN Return(p, GoErr(StatusInternalServerError, "GetDBInfo"))
           ELSE IF Len(challengeID) > 0
           THEN Goto(p, "get", [userID |-> userID, challengeID |-> challengeID])
           ELSE Goto(p, "scan", [userID |-> userID])

\* getChallengeByID
GetChallengeByID(p) ==
    /\ pc[p] = "get"
    /\ req[p].op = "getChallenges"
    /\ Issue(p, "GetItem")
    /\ UNCHANGED <<store, nextId, req>>
    /\ \E ok \in StoreOutcomes(req[p].env) :
        LET item == GetItem(loc[p].challengeID)
        IN  IF ~ok
            THEN Return(p, ErrBody(StatusInternalServerError, "Unable to get challenge: %s",
                                   <<StoreErrText>>))
            ELSE IF DOMAIN item = {}
            THEN Return(p, ErrBody(StatusBadRequest, "Unable to find challenge %s",
                                   <<loc[p].challengeID>>))
            ELSE IF ~Has(item, "Public") \/ ~Has(item, "CreatedBy")
            THEN Return(p, Panic)
            ELSE IF item.Public = FALSE /\ item.CreatedBy # loc[p].userID
            THEN Return(p, ErrBody(StatusUnauthorized, "Unauthorized to view this challenge",
                                   <<>>))
            ELSE \E out \in ChallengeFormatOutputs(item) :
                    IF out.kind = "panic" THEN Return(p, Panic)
                    ELSE IF out.kind = "error"
                    THEN Return(p, GoErr(StatusInternalServerError,
                                         "Unable to convert to number"))
                    ELSE Return(p, DataBody(StatusOK, out.challenge))

\* getAllChallenges
GetAllChallenges(p) ==
    /\ pc[p] = "scan"
    /\ req[p].op = "getChallenges"
    /\ Issue(p, "Scan")
    /\ UNCHANGED <<store, nextId, req>>
    /\ \E ok \in StoreOutcomes(req[p].env) :
        LET items == {item \in ScanItems : AllChallengesFilter(loc[p].userID, item)}
            outs == UNION {ChallengeFormatOutputs(i) : i \in items}
        IN  IF ~ok
            THEN Return(p, ErrBody(StatusInternalServerError,
                                   "Unable to get existing challenges: %s", <<StoreErrText>>))
            ELSE IF Cardinality(items) = 0
            THEN Return(p, DataBody(StatusOK, <<>>))
            ELSE IF \E o \in outs : o.kind = "panic"
            THEN Return(p, Panic)
            ELSE IF \E o \in outs : o.kind = "error"
            THEN Return(p, GoErr(StatusInternalServerError, "Unable to convert to number"))
            ELSE \E order \in Orders(items) :
                 \E challenges \in [1..Cardinality(items) -> {o.challenge : o \in outs}] :
                    /\ \A k \in 1..Cardinality(items) :
                          \E o \in ChallengeFormatOutputs(order[k]) :
                                o.challenge = challenges[k]
                    /\ Return(p, DataBody(StatusOK, challenges))

-----------------------------------------------------------------------------
(* getRecommendations: src/services/getChallenges/getChallenges.go, lines 352-597 *)

UpperCase == <<"A", "B", "C", "D", "E", "F", "G", "H", "I", "J", "K", "L", "M",
               "N", "O", "P", "Q", "R", "S", "T", "U", "V", "W", "X", "Y", "Z">>
LowerCase == <<"a", "b", "c", "d", "e", "f", "g", "h", "i", "j", "k", "l", "m",
               "n", "o", "p", "q", "r", "s", "t", "u", "v", "w", "x", "y", "z">>

\* strings.ToLower
ToLower(s) ==
    [i \in 1..Len(s) |->
        IF \E k \in 1..26 : UpperCase[k] = s[i]
        THEN LowerCase[CHOOSE k \in 1..26 : UpperCase[k] = s[i]]
        ELSE s[i]]

\* request.QueryStringParameters[name]: the value, "" when absent
QueryParam(r, name) == IF name \in DOMAIN r.query THEN r.query[name] ELSE <<>>

ForMe == <<"f", "o", "r", "m", "e">>
ByMe == <<"b", "y", "m", "e">>
All == <<"a", "l", "l">>

\* the attributes formatOutput dereferences without a nil check
RecommendationAttrs == {"Id", "CreatedBy", "RecommendedFor", "Workout"}

\* formatOutput(item): the recommendation it returns, "panic" when an attribute is
\* absent
RecommendationFormatOutput(item) ==
    IF ~(RecommendationAttrs \subseteq DOMAIN item) THEN [kind |-> "panic"]
    ELSE [kind |-> "ok",
          rec |-> [ID |-> item.Id, CreatedBy |-> item.CreatedBy,
                   RecommendedFor |-> item.RecommendedFor,
                   Workout |-> UnmarshalWorkout(item.Workout)]]

\* the filter expression getAllRecommendations chooses for the type
AllRecommendationsFilter(recType, userID, item) ==
    IF recType = ForMe
    THEN Has(item, "RecommendedFor") /\ item.RecommendedFor = userID
    ELSE IF recType = ByMe
    THEN Has(item, "CreatedBy") /\ item.CreatedBy = userID
    ELSE \/ Has(item, "RecommendedFor") /\ item.RecommendedFor = userID
         \/ Has(item, "CreatedBy") /\ item.CreatedBy = userID

\* the type as getRecommendations takes it
RecTypeOf(r) ==
    LET recType == ToLower(TrimSpace(QueryParam(r, "type")))
    IN  IF recType = <<>> THEN ForMe ELSE recType

\* getRecommendations up to its first store call
GetRecommendationsBegin(p, r) ==
    /\ r.op = "getRecommendations"
    /\ Enter(p, r)
    /\ UNCHANGED <<store, nextId>>
    /\ LET userID == TrimSpace(HeaderUserID(r))
           info == GetDBInfo(r.env)
           recommendationID == TrimSpace(PathParam(r, "recommendationId"))
           recType == RecTypeOf(r)
       IN  IF UserIDMissing(r)
           THEN Return(p, ErrBody(StatusBadRequest, "UserID header is required", <<>>))
           ELSE IF info.err
           THEN Return(p, GoErr(StatusInternalServerError, "GetDBInfo"))
           ELSE IF Len(recommendationID) > 0
           THEN Goto(p, "get", [userID |-> userID, recommendationID |-> recommendationID])
           ELSE IF recType \notin {ForMe, ByMe, All}
           THEN Return(p, ErrBody(StatusBadRequest, "type must be forMe, byMe, or all", <<>>))
           ELSE Goto(p, "scan", [userID |-> userID, recType |-> recType])

\* getRecommendationByID
GetRecommendationByID(p) ==
    /\ pc[p] = "get"
    /\ req[p].op = "getRecommendations"
    /\ Issue(p, "GetItem")
    /\ UNCHANGED <<store, nextId, req>>
    /\ \E ok \in StoreOutcomes(req[p].env) :
        LET item == GetItem(loc[p].recommendationID)
        IN  IF ~ok
            THEN Return(p, ErrBody(StatusInternalServerError,
                                   "Unable to get recommendation: %s", <<StoreErrText>>))
            ELSE IF DOMAIN item = {}
            THEN Return(p, ErrBody(StatusBadRequest, "Unable to find recommendation %s",
                                   <<loc[p].recommendationID>>))
            ELSE IF ~Has(item, "CreatedBy") \/ ~Has(item, "RecommendedFor")
            THEN Return(p, Panic)
            ELSE IF item.CreatedBy # loc[p].userID /\ item.RecommendedFor # loc[p].userID
            THEN Return(p, ErrBody(StatusUnauthorized,
                                   "Unauthorized to view this recommendation", <<>>))
            ELSE IF RecommendationFormatOutput(item).kind = "panic"
            THEN Return(p, Panic)
            ELSE Return(p, DataBody(StatusOK, RecommendationFormatOutput(item).rec))

\* getAllRecommendations from its scan on
GetAllRecommendations(p) ==
    /\ pc[p] = "scan"
    /\ req[p].op = "getRecommendations"
    /\ Issue(p, "Scan")
    /\ UNCHANGED <<store, nextId, req>>
    /\ \E ok \in StoreOutcomes(req[p].env) :
        LET items == {item \in ScanItems :
                        AllRecommendationsFilter(loc[p].recType, loc[p].userID, item)}
        IN  IF ~ok
            THEN Return(p, ErrBody(StatusInternalServerError,
                                   "Unable to get existing recommendations: %s",
                                   <<StoreErrText>>))
            ELSE IF Cardinality(items) = 0
            THEN Return(p, DataBody(StatusOK, <<>>))
            ELSE IF \E i \in items : RecommendationFormatOutput(i).kind = "panic"
            THEN Return(p, Panic)
            ELSE \E order \in Orders(items) :
                    Return(p, DataBody(StatusOK,
                        [k \in 1..Cardinality(items) |->
                            RecommendationFormatOutput(order[k]).rec]))

-----------------------------------------------------------------------------
(* The other reader of recommendations:
   src/services/getRecommendations/getRecommendations.go.  Its handler function is
   named getPrograms; it names the creator attribute RecommendedBy. *)

GetRecommendationsOp == "getRecommendations/getRecommendations.go"

\* the attributes formatOutput dereferences without a nil check
GetRecommendationsAttrs == {"Id", "RecommendedBy", "RecommendedFor", "Workout"}

\* formatOutput(item): the recommendation it returns, "panic" when an attribute is
\* absent
GetRecommendationsFormatOutput(item) ==
    IF ~(GetRecommendationsAttrs \subseteq DOMAIN item) THEN [kind |-> "panic"]
    ELSE [kind |-> "ok",
          rec |-> [ID |-> item.Id, RecommendedBy |-> item.RecommendedBy,
                   RecommendedFor |-> item.RecommendedFor,
                   Workout |-> UnmarshalWorkout(item.Workout)]]

\* the filter expression getAllItems chooses for the type
GetRecommendationsFilter(recType, userID, item) ==
    IF recType = ForMe
    THEN Has(item, "RecommendedFor") /\ item.RecommendedFor = userID
    ELSE IF recType = ByMe
    THEN Has(item, "RecommendedBy") /\ item.RecommendedBy = userID
    ELSE \/ Has(item, "RecommendedFor") /\ item.RecommendedFor = userID
         \/ Has(item, "RecommendedBy") /\ item.RecommendedBy = userID

\* the handler up to its first store call
GetRecommendationsGetPrograms(p, r) ==
    /\ r.op = GetRecommendationsOp
    /\ Enter(p, r)
    /\ UNCHANGED <<store, nextId>>
    /\ LET userID == TrimSpace(HeaderUserID(r))
           recommendationID == TrimSpace(PathParam(r, "recommendationId"))
           recType == RecTypeOf(r)
       IN  IF UserIDMissing(r)
           THEN Return(p, ErrBody(StatusBadRequest, "UserID header is required", <<>>))
           ELSE IF ~r.env.table_region
           THEN Return(p, GoErr(StatusInternalServerError,
                                "table_region env var doesn't exist"))
           ELSE IF ~r.env.table_name
           THEN Return(p, GoErr(StatusInternalServerError,
                                "table_name env var doesn't exist"))
           ELSE IF Len(recommendationID) > 0
           THEN Goto(p, "get", [userID |-> userID, recommendationID |-> recommendationID])
           ELSE IF recType \notin {ForMe, ByMe, All}
           THEN Return(p, ErrBody(StatusBadRequest, "type must be forMe, byMe, or all", <<>>))
           ELSE Goto(p, "scan", [userID |-> userID, recType |-> recType])

\* getItemByID
GetRecommendationsGetItemByID(p) ==
    /\ pc[p] = "get"
    /\ req[p].op = GetRecommendationsOp
    /\ Issue(p, "GetItem")
    /\ UNCHANGED <<store, nextId, req>>
    /\ \E ok \in StoreOutcomes(req[p].env) :
        LET item == GetItem(loc[p].recommendationID)
        IN  IF ~ok
            THEN Return(p, ErrBody(StatusInternalServerError,
                                   "Unable to get recommendation: %s", <<StoreErrText>>))
            ELSE IF DOMAIN item = {}
            THEN Return(p, ErrBody(StatusBadRequest, "Unable to find recommendation %s",
                                   <<loc[p].recommendationID>>))
            ELSE IF ~Has(item, "RecommendedBy") \/ ~Has(item, "RecommendedFor")
            THEN Return(p, Panic)
            ELSE IF item.RecommendedBy # loc[p].userID
                    /\ item.RecommendedFor # loc[p].userID
            THEN Return(p, ErrBody(StatusUnauthorized,
                                   "Unauthorized to view this recommendation", <<>>))
            ELSE IF GetRecommendationsFormatOutput(item).kind = "panic"
            THEN Return(p, Panic)
            ELSE Return(p, DataBody(StatusOK, GetRecommendationsFormatOutput(item).rec))

\* getAllItems from its scan on
GetRecommendationsGetAllItems(p) ==
    /\ pc[p] = "scan"
    /\ req[p].op = GetRecommendationsOp
    /\ Issue(p, "Scan")
    /\ UNCHANGED <<store, nextId, req>>
    /\ \E ok \in StoreOutcomes(req[p].env) :
        LET items == {item \in ScanItems :
                        GetRecommendationsFilter(loc[p].recType, loc[p].userID, item)}
        IN  IF ~ok
            THEN Return(p, ErrBody(StatusInternalServerError,
                                   "Unable to get existing recommendations: %s",
                                   <<StoreErrText>>))
            ELSE IF Cardinality(items) = 0
            THEN Return(p, DataBody(StatusOK, <<>>))
            ELSE IF \E i \in items : GetRecommendationsFormatOutput(i).kind = "panic"
            THEN Return(p, Panic)
            ELSE \E order \in Orders(items) :
                    Return(p, DataBody(StatusOK,
                        [k \in 1..Cardinality(items) |->
                            GetRecommendationsFormatOutput(order[k]).rec]))

-----------------------------------------------------------------------------
(* The other reader of programs: src/unnamed/part_001 *)

Part001Op == "part_001"

\* pointer equality `a == b` of two pointers, given whether they point to the same
\* variable: aws.Bool(false) and &userID are new variables at each evaluation
SamePointer(sameVariable) == sameVariable

\* getItemByID's test `Item["Public"].BOOL == aws.Bool(false) &&
\* Item["CreatedBy"].S != &userID`: both compare a pointer held by the item with a
\* pointer to a variable of the handler
Part001Unauthorized(item, userID) == SamePointer(FALSE) /\ ~SamePointer(FALSE)

\* the handler up to its first store call
Part001GetPrograms(p, r) ==
    /\ r.op = Part001Op
    /\ Enter(p, r)
    /\ UNCHANGED <<store, nextId>>
    /\ LET userID == TrimSpace(HeaderUserID(r))
           programID == TrimSpace(PathParam(r, "programId"))
       IN  IF UserIDMissing(r)
           THEN Return(p, ErrBody(StatusBadRequest, "UserID header is required", <<>>))
           ELSE IF ~r.env.table_region
           THEN Return(p, GoErr(StatusInternalServerError,
                                "table_region env var doesn't exist"))
           ELSE IF ~r.env.table_name
           THEN Return(p, GoErr(StatusInternalServerError,
                                "table_name env var doesn't exist"))
           ELSE IF Len(programID) > 0
           THEN Goto(p, "get", [userID |-> userID, programID |-> programID])
           ELSE Goto(p, "scan", [userID |-> userID])

\* getItemByID: the item's Public attribute is dereferenced before the test
Part001GetItemByID(p) ==
    /\ pc[p] = "get"
    /\ req[p].op = Part001Op
    /\ Issue(p, "GetItem")
    /\ UNCHANGED <<store, nextId, req>>
    /\ \E ok \in StoreOutcomes(req[p].env) :
        LET item == GetItem(loc[p].programID)
        IN  IF ~ok
            THEN Return(p, ErrBody(StatusInternalServerError, "Unable to get program: %s",
                                   <<StoreErrText>>))
            ELSE IF DOMAIN item = {}
            THEN Return(p, ErrBody(StatusBadRequest, "Unable to find program %s",
                                   <<loc[p].programID>>))
            ELSE IF ~Has(item, "Public")
            THEN Return(p, Panic)
            ELSE IF Part001Unauthorized(item, loc[p].userID)
            THEN Return(p, ErrBody(StatusUnauthorized, "Unauthorized to view this program",
                                   <<>>))
            ELSE \E out \in FormatOutputs(item) :
                    IF out.kind = "panic" THEN Return(p, Panic)
                    ELSE IF out.kind = "error"
                    THEN Return(p, GoErr(StatusInternalServerError,
                                         "Unable to convert NumWeeks to int"))
                    ELSE Return(p, DataBody(StatusOK, out.program))

\* getAllItems
Part001GetAllItems(p) ==
    /\ pc[p] = "scan"
    /\ req[p].op = Part001Op
    /\ Issue(p, "Scan")
    /\ UNCHANGED <<store, nextId, req>>
    /\ \E ok \in StoreOutcomes(req[p].env) :
        LET items == {item \in ScanItems : AllProgramsFilter(loc[p].userID, item)}
            outs == UNION {FormatOutputs(i) : i \in items}
        IN  IF ~ok
            THEN Return(p, ErrBody(StatusInternalServerError,
                                   "Unable to get existing programs: %s", <<StoreErrText>>))
            ELSE IF Cardinality(items) = 0
            THEN Return(p, ErrBody(StatusBadRequest, "Unable to find any programs", <<>>))
            ELSE IF \E o \in outs : o.kind = "panic"
            THEN Return(p, Panic)
            ELSE IF \E o \in outs : o.kind = "error"
            THEN Return(p, GoErr(StatusInternalServerError,
                                 "Unable to convert NumWeeks to int"))
            ELSE \E order \in Orders(items) :
                 \E programs \in [1..Cardinality(items) -> {o.program : o \in outs}] :
                    /\ \A k \in 1..Cardinality(items) :
                          \E o \in FormatOutputs(order[k]) : o.program = programs[k]
                    /\ Return(p, DataBody(StatusOK, programs))

-----------------------------------------------------------------------------
(* shared.PelotonRequest: src/unnamed/part_002, lines 303-351 *)

basePelotonURL == "https://api.onepeloton.com"

\* a []byte that may be nil
NilBytes == [nil |-> TRUE, b |-> <<>>]
Bytes(b) == [nil |-> FALSE, b |-> b]

\* an error value that may be nil
NilErr == [nil |-> TRUE, text |-> "", args |-> <<>>]
Errorf(text, args) == [nil |-> FALSE, text |-> text, args |-> args]

NoHeaders == [h \in {} |-> <<>>]

\* err.Error() of a failed round trip or of a failed read of the response body
TransportErrText == <<"T">>

\* what client.Do and ioutil.ReadAll can come back with: no response at all, a
\* response whose body cannot be read to its end, or a whole response
DoFailed == [kind |-> "doError"]
ReadFailed(code, header) == [kind |-> "readError", StatusCode |-> code, Header |-> header]
Response(code, header, body) ==
    [kind |-> "response", StatusCode |-> code, Header |-> header, Body |-> body]

\* resp.Status: the status line's text, the code first
Status(o) == Itoa(o.StatusCode)

\* PelotonRequest(method, url, headers, body), given what the network came back with:
\* ([]byte, http.Header, int, error).  http.NewRequest does not fail for the methods
\* and urls the handlers pass.
PelotonRequest(method, url, headers, body, o) ==
    LET u == IF url # <<>> /\ Head(url) = "/" THEN url ELSE <<"/">> \o url
        fullURL == <<basePelotonURL>> \o u
    IN  IF o.kind = "doError"
        THEN [body |-> NilBytes, header |-> NoHeaders, code |-> StatusInternalServerError,
              err |-> Errorf("Unable to get categories from Peloton: %s",
                             <<TransportErrText>>)]
        ELSE IF o.kind = "readError"
        THEN [body |-> NilBytes, header |-> NoHeaders, code |-> StatusInternalServerError,
              err |-> Errorf("Unable to read response body: %s", <<TransportErrText>>)]
        ELSE IF o.StatusCode > 399
        THEN [body |-> Bytes(o.Body), header |-> o.Header, code |-> o.StatusCode,
              err |-> Errorf("Error communicating with Peloton: %s", <<Status(o)>>)]
        ELSE [body |-> Bytes(o.Body), header |-> o.Header, code |-> StatusOK,
              err |-> NilErr]

-----------------------------------------------------------------------------
(* bookmarkClass: src/services/getChallenges/getChallenges.go, lines 262-350,
   and unbookmarkClass: src/services/unbookmarkClass/unbookmarkClass.go *)

FavoritesCreate == <<"/", "api/favorites/create">>
FavoritesDelete == <<"/", "api/favorites/delete">>

\* request.Headers["Cookie"]: (value, ok)
HasCookie(r) == r.hasCookie

\* a reply whose body is err.Error() as it is
PlainBody(status, err) ==
    [status |-> status, text |-> err.text, args |-> err.args, data |-> NoData,
     goErr |-> FALSE]

\* a reply whose body is string(body), the bytes that came from upstream
UpstreamBody(status, body) ==
    [status |-> status, text |-> "", args |-> <<>>, data |-> NoData, goErr |-> FALSE,
     Body |-> body]

\* a reply with a status and MultiValueHeaders, and no body
HeadersOnly(status, headers) ==
    [status |-> status, text |-> "", args |-> <<>>, data |-> NoData, goErr |-> FALSE,
     MultiValueHeaders |-> headers]

\* getBody(url, request): the request's ride_id trimmed and marshalled again, or the
\* 400.  json.Marshal of the one-string struct does not fail.
GetBody(r) ==
    IF r.body = Malformed
    THEN [reqBody |-> NilBytes, code |-> StatusBadRequest,
          err |-> Errorf("ride_id is required in request body", <<>>)]
    ELSE IF TrimSpace(r.body.RideID) = <<>>
    THEN [reqBody |-> NilBytes, code |-> StatusBadRequest,
          err |-> Errorf("ride_id is required in request body", <<>>)]
    ELSE [reqBody |-> Bytes([ride_id |-> TrimSpace(r.body.RideID)]), code |-> 0 - 1,
          err |-> NilErr]

\* the handler from its entry to the call of PelotonRequest
FavoriteBegin(p, r, url) ==
    /\ Enter(p, r)
    /\ UNCHANGED <<store, nextId>>
    /\ LET b == GetBody(r)
       IN  IF ~b.err.nil
           THEN Return(p, ErrBody(b.code, b.err.text, b.err.args))
           ELSE Goto(p, "peloton",
                     [method |-> "POST", url |-> url, reqBody |-> b.reqBody,
                      headers |-> IF HasCookie(r) THEN [h \in {"Cookie"} |-> r.Cookie]
                                                  ELSE NoHeaders])

\* the reply the handler builds from what PelotonRequest returned
FavoriteReply(res) ==
    IF ~res.err.nil
    THEN IF ~res.body.nil THEN UpstreamBody(res.code, res.body.b)
                          ELSE PlainBody(res.code, res.err)
    ELSE HeadersOnly(res.code, res.header)

\* the round trip to upstream and the reply; the call is logged with what came back
FavoriteCall(p, outcomes) ==
    /\ pc[p] = "peloton"
    /\ UNCHANGED <<store, nextId, req>>
    /\ \E o \in outcomes :
        LET l == loc[p]
            res == PelotonRequest(l.method, l.url, l.headers, l.reqBody, o)
        IN  /\ Issue(p, [call |-> "PelotonRequest", method |-> l.method, url |-> l.url,
                         headers |-> l.headers, body |-> l.reqBody, outcome |-> o])
            /\ Return(p, FavoriteReply(res))

BookmarkClassBegin(p, r) == r.op = "bookmarkClass" /\ FavoriteBegin(p, r, FavoritesCreate)

UnbookmarkClassBegin(p, r) ==
    r.op = "unbookmarkClass" /\ FavoriteBegin(p, r, FavoritesDelete)

BookmarkClassCall(p, outcomes) ==
    req[p].op = "bookmarkClass" /\ FavoriteCall(p, outcomes)

UnbookmarkClassCall(p, outcomes) ==
    req[p].op = "unbookmarkClass" /\ FavoriteCall(p, outcomes)

-----------------------------------------------------------------------------
(* The requests the model sends *)

UserA == <<"a">>
UserB == <<"b">>
NameP == <<"P">>
Padded(s) == <<Space>> \o s \o <<Space>>

W1 == Workout(<<"w", "1">>, <<"r", "i", "d", "e">>)
W2 == Workout(<<"w", "2">>, <<"r", "u", "n">>)

Pad2(n) == IF n < 10 THEN <<"0">> \o Itoa(n) ELSE Itoa(n)
DateStr(y, m, d) == Itoa(y) \o <<"-">> \o Pad2(m) \o <<"-">> \o Pad2(d)

Yesterday == DateStr(2030, 12, 31)
Today == DateStr(2031, 1, 1)
Tomorrow == DateStr(2031, 1, 2)
NotADate == DateStr(2031, 2, 30)

\* the clock at the midnight that starts Today, and later on Today
NowMidnight == ParseDate(Today).t
NowLater == ParseDate(Today).t + 1

Request(op, hasUserID, userID, path, body, now) ==
    [op |-> op, hasUserID |-> hasUserID, UserID |-> userID, path |-> path,
     body |-> body, env |-> EnvSet, now |-> now]

\* a customProgram as json.Unmarshal fills it from the body
ProgramBody(name, description, public, equipment, numWeeks, workouts) ==
    [ID |-> <<>>, Name |-> name, Description |-> description, Public |-> public,
     EquipmentNeeded |-> equipment, NumWeeks |-> numWeeks, Workouts |-> workouts,
     CreatedBy |-> <<>>, CreatedDate |-> <<>>]

\* a customChallenge as json.Unmarshal fills it from the body; difficulty in hundredths
ChallengeBody(name, public, difficulty, goal, startDate, endDate, types) ==
    [ID |-> <<>>, CreatedBy |-> <<>>, Name |-> name, Description |-> <<"d">>,
     Public |-> public, EquipmentNeeded |-> <<<<"bike">>>>, Difficulty |-> difficulty,
     StartDate |-> startDate, EndDate |-> endDate, NumWorkoutGoal |-> goal,
     WorkoutTypes |-> types]

\* a recommendation as json.Unmarshal fills it from the body
RecommendationBody(recommendedFor, workout) ==
    [ID |-> <<>>, CreatedBy |-> <<>>, RecommendedFor |-> recommendedFor,
     Workout |-> workout]

SimpleProgram(name, public) ==
    ProgramBody(name, <<"d">>, public, <<<<"bike">>>>, 1, <<<<W1>>>>)

SimpleChallenge(name, public) ==
    ChallengeBody(name, public, 50, 1, Tomorrow, Tomorrow, <<<<"cycling">>>>)

AddProgramReq(userID, body) ==
    Request("addProgram", TRUE, userID, NoPath, body, NowLater)
AddChallengeReq(userID, body, now) ==
    Request("addChallenge", TRUE, userID, NoPath, body, now)
RecommendClassReq(userID, body) ==
    Request("recommendClass", TRUE, userID, NoPath, body, NowLater)
DeleteByIDReq(userID, param, id) ==
    Request("DeleteByID", TRUE, userID, [a \in {param} |-> id], Malformed, NowLater)
DeleteChallengeReq(userID, id) ==
    Request("deleteChallenge", TRUE, userID, [a \in {"challengeId"} |-> id], Malformed,
            NowLater)
GetProgramsReq(userID, path) ==
    Request("getPrograms", TRUE, userID, path, Malformed, NowLater)

CreateOps == {"addProgram", "addChallenge", "recommendClass"}

-----------------------------------------------------------------------------
(* State after deployment: an empty table, no invocation yet *)

Init ==
    /\ store = NoItem
    /\ nextId = 0
    /\ pc = [p \in Procs |-> "idle"]
    /\ req = [p \in Procs |-> NoReq]
    /\ loc = [p \in Procs |-> NoLoc]
    /\ resp = [p \in Procs |-> NoResp]
    /\ calls = [p \in Procs |-> <<>>]


-----------------------------------------------------------------------------
(* Spec: overlapping creations that share a uniqueness key *)

RaceRequests ==
    {AddProgramReq(UserA, SimpleProgram(NameP, TRUE)),
     AddChallengeReq(UserA, SimpleChallenge(NameP, FALSE), NowLater),
     RecommendClassReq(UserA, RecommendationBody(UserB, W1))}

Next ==
    \E p \in Procs :
        \/ \E r \in RaceRequests : AddProgramBegin(p, r)
        \/ \E r \in RaceRequests : AddChallengeBegin(p, r)
        \/ \E r \in RaceRequests : RecommendClassBegin(p, r)
        \/ AddProgramScan(p)
        \/ AddProgramPut(p)
        \/ AddChallengeScan(p)
        \/ AddChallengePut(p)
        \/ RecommendClassScan(p)
        \/ RecommendClassPut(p)

Spec == Init /\ [][Next]_vars

-----------------------------------------------------------------------------
(* DeleteSpec: deletes by the owner and by another user, overlapping *)

DeleteRequests ==
    {AddChallengeReq(u, SimpleChallenge(NameP, FALSE), NowLater) : u \in {UserA, UserB}}
    \cup {DeleteByIDReq(u, "challengeId", Uuid(1)) : u \in {UserA, UserB}}
    \cup {DeleteChallengeReq(u, Padded(Uuid(1))) : u \in {UserA, UserB}}
    \cup {Request("DeleteByID", TRUE, UserA, NoPath, Malformed, NowLater),
          Request("deleteChallenge", TRUE, UserA, NoPath, Malformed, NowLater)}

DeleteNext ==
    \E p \in Procs :
        \/ \E r \in DeleteRequests : AddChallengeBegin(p, r)
        \/ \E r \in DeleteRequests : DeleteByIDBegin(p, r)
        \/ \E r \in DeleteRequests : DeleteChallengeBegin(p, r)
        \/ AddChallengeScan(p)
        \/ AddChallengePut(p)
        \/ DeleteByIDGet(p)
        \/ DeleteByIDDelete(p)
        \/ DeleteChallengeGet(p)
        \/ DeleteChallengeDelete(p)

DeleteSpec == Init /\ [][DeleteNext]_vars


-----------------------------------------------------------------------------
(* SeqSpec: named creations by two users, one invocation after another *)

SeqRequests ==
    {AddProgramReq(u, SimpleProgram(n, pub)) :
        u \in {UserA, UserB}, n \in {NameP, Padded(NameP)}, pub \in BOOLEAN}
    \cup {AddChallengeReq(u, SimpleChallenge(NameP, pub), NowLater) :
        u \in {UserA, UserB}, pub \in BOOLEAN}

SeqNext ==
    \/ \E r \in SeqRequests : AddProgramBegin(1, r)
    \/ \E r \in SeqRequests : AddChallengeBegin(1, r)
    \/ AddProgramScan(1)
    \/ AddProgramPut(1)
    \/ AddChallengeScan(1)
    \/ AddChallengePut(1)

SeqSpec == Init /\ [][SeqNext]_vars

-----------------------------------------------------------------------------
(* HeaderSpec: creations with missing headers, malformed and invalid bodies *)

ValidBody(op) ==
    CASE op = "addProgram" -> SimpleProgram(NameP, FALSE)
      [] op = "addChallenge" -> SimpleChallenge(NameP, FALSE)
      [] op = "recommendClass" -> RecommendationBody(UserB, W1)

HeaderRequests ==
    {Request(op, h[1], h[2], NoPath, IF valid THEN ValidBody(op) ELSE Malformed, NowLater) :
        op \in CreateOps, valid \in BOOLEAN,
        h \in {<<FALSE, <<>>>>, <<TRUE, <<Space>>>>, <<TRUE, <<>>>>, <<TRUE, UserA>>}}

InvalidProgramRequests ==
    {AddProgramReq(UserA, ProgramBody(n, <<"d">>, FALSE, <<<<"bike">>>>, w, ws)) :
        n \in {NameP, <<Space>>}, w \in {0, 1}, ws \in {<<>>, <<<<W1>>>>}}

RecommendRequests ==
    {RecommendClassReq(u, RecommendationBody(f, W1)) :
        u \in {UserA, Padded(UserA)}, f \in {<<>>, UserA, Padded(UserA), UserB}}

HeaderNext ==
    \/ \E r \in HeaderRequests \cup InvalidProgramRequests : AddProgramBegin(1, r)
    \/ \E r \in HeaderRequests : AddChallengeBegin(1, r)
    \/ \E r \in HeaderRequests \cup RecommendRequests : RecommendClassBegin(1, r)
    \/ AddProgramScan(1)
    \/ AddProgramPut(1)
    \/ AddChallengeScan(1)
    \/ AddChallengePut(1)
    \/ RecommendClassScan(1)
    \/ RecommendClassPut(1)

HeaderSpec == Init /\ [][HeaderNext]_vars

-----------------------------------------------------------------------------
(* ChallengeSpec: challenges with every combination of valid and invalid fields *)

ChallengeDates == {<<>>, NotADate, Yesterday, Today, Tomorrow}

ChallengeRequests ==
    {AddChallengeReq(UserA, ChallengeBody(n, FALSE, d, g, sd, ed, t), NowMidnight) :
        n \in {NameP, <<>>}, d \in {0, 50}, g \in {0, 1},
        sd \in ChallengeDates, ed \in ChallengeDates,
        t \in {<<>>, <<<<"cycling">>>>}}

ChallengeNext ==
    \/ \E r \in ChallengeRequests : AddChallengeBegin(1, r)
    \/ AddChallengeScan(1)
    \/ AddChallengePut(1)

ChallengeSpec == Init /\ [][ChallengeNext]_vars

-----------------------------------------------------------------------------
(* ReadSpec: slot 1 creates programs, slot 2 reads them *)

ReadRequests ==
    {AddProgramReq(UserA, SimpleProgram(NameP, TRUE)),
     AddProgramReq(Padded(UserB),
        ProgramBody(Padded(<<"Q">>), Padded(<<"d">>), FALSE,
                    <<<<"mat">>, <<"bike">>>>, 12, <<<<W1, W2>>, <<W2>>>>)),
     AddProgramReq(UserB, ProgramBody(NameP, <<>>, FALSE, <<<<"bike">>>>, 1, <<<<>>>>))}
    \cup {GetProgramsReq(u, [a \in {"programId"} |-> Uuid(n)]) :
            u \in {UserA, UserB}, n \in 1..2}
    \cup {GetProgramsReq(UserB, NoPath)}

ReadNext ==
    \/ \E r \in ReadRequests : AddProgramBegin(1, r)
    \/ AddProgramScan(1)
    \/ AddProgramPut(1)
    \/ \E r \in ReadRequests : GetProgramsBegin(2, r)
    \/ GetProgramByID(2)
    \/ GetAllPrograms(2)

ReadSpec == Init /\ [][ReadNext]_vars


-----------------------------------------------------------------------------
(* VisibilitySpec: records of the three kinds in the table, read by id and listed *)

GetChallengesReq(userID, path) ==
    Request("getChallenges", TRUE, userID, path, Malformed, NowLater)

\* slot 1 creates a public and a private program, a public and a private challenge
\* and a recommendation, all by UserA
VisibilityCreates ==
    {AddProgramReq(UserA, SimpleProgram(<<"P">>, TRUE)),
     AddProgramReq(UserA, SimpleProgram(<<"Q">>, FALSE)),
     AddChallengeReq(UserA, SimpleChallenge(<<"R">>, TRUE), NowLater),
     AddChallengeReq(UserA, SimpleChallenge(<<"S">>, FALSE), NowLater),
     RecommendClassReq(UserA, RecommendationBody(UserB, W1))}

\* slot 2 reads by each id and lists, as the owner and as another user
VisibilityReads ==
    {GetProgramsReq(u, [a \in {"programId"} |-> Uuid(n)]) :
        u \in {UserA, UserB}, n \in 1..MaxIds}
    \cup {GetChallengesReq(u, [a \in {"challengeId"} |-> Uuid(n)]) :
        u \in {UserA, UserB}, n \in 1..MaxIds}
    \cup {GetProgramsReq(u, NoPath) : u \in {UserA, UserB}}
    \cup {GetChallengesReq(u, NoPath) : u \in {UserA, UserB}}

VisibilityNext ==
    \/ \E r \in VisibilityCreates : AddProgramBegin(1, r)
    \/ \E r \in VisibilityCreates : AddChallengeBegin(1, r)
    \/ \E r \in VisibilityCreates : RecommendClassBegin(1, r)
    \/ AddProgramScan(1)
    \/ AddProgramPut(1)
    \/ AddChallengeScan(1)
    \/ AddChallengePut(1)
    \/ RecommendClassScan(1)
    \/ RecommendClassPut(1)
    \/ \E r \in VisibilityReads : GetProgramsBegin(2, r)
    \/ \E r \in VisibilityReads : GetChallengesBegin(2, r)
    \/ GetProgramByID(2)
    \/ GetAllPrograms(2)
    \/ GetChallengeByID(2)
    \/ GetAllChallenges(2)

VisibilitySpec == Init /\ [][VisibilityNext]_vars

-----------------------------------------------------------------------------
(* RecListSpec: recommendations and a program in the table, listed by type *)

GetRecommendationsReq(userID, path, query) ==
    Request("getRecommendations", TRUE, userID, path, Malformed, NowLater)
        @@ [query |-> query]

\* slot 1 creates recommendations between the two users, and a program
RecListCreates ==
    {RecommendClassReq(UserA, RecommendationBody(UserB, W1)),
     RecommendClassReq(UserB, RecommendationBody(UserA, W1)),
     RecommendClassReq(UserA, RecommendationBody(UserB, W2)),
     AddProgramReq(UserA, SimpleProgram(NameP, FALSE))}

\* the values of the type query parameter the model sends
RecTypes ==
    {<<>>, <<"f", "o", "r", "M", "e">>, <<" ", "B", "y", "M", "e", " ">>, All,
     <<"m", "i", "n", "e">>}

\* slot 2 lists with each type and without one, and reads by id
RecListReads ==
    {GetRecommendationsReq(u, NoPath, [a \in {"type"} |-> t]) :
        u \in {UserA, UserB}, t \in RecTypes}
    \cup {GetRecommendationsReq(u, NoPath, NoPath) : u \in {UserA, UserB}}
    \cup {GetRecommendationsReq(UserB, [a \in {"recommendationId"} |-> Uuid(1)], NoPath)}

RecListNext ==
    \/ \E r \in RecListCreates : RecommendClassBegin(1, r)
    \/ \E r \in RecListCreates : AddProgramBegin(1, r)
    \/ RecommendClassScan(1)
    \/ RecommendClassPut(1)
    \/ AddProgramScan(1)
    \/ AddProgramPut(1)
    \/ \E r \in RecListReads : GetRecommendationsBegin(2, r)
    \/ GetRecommendationByID(2)
    \/ GetAllRecommendations(2)

RecListSpec == Init /\ [][RecListNext]_vars

-----------------------------------------------------------------------------
(* StampSpec: overlapping creations whose bodies carry an id and a creator *)

\* the body with the id of the first record and another user as its creator
Forged(body) == [body EXCEPT !.ID = Uuid(1), !.CreatedBy = UserB]

StampRequests ==
    {AddProgramReq(UserA, SimpleProgram(<<"P">>, TRUE)),
     AddProgramReq(Padded(UserA), Forged(SimpleProgram(<<"Q">>, TRUE))),
     AddChallengeReq(UserA, SimpleChallenge(<<"R">>, FALSE), NowLater),
     AddChallengeReq(Padded(UserA), Forged(SimpleChallenge(<<"S">>, FALSE)), NowLater),
     RecommendClassReq(UserA, RecommendationBody(UserB, W1)),
     RecommendClassReq(Padded(UserA), Forged(RecommendationBody(<<"c">>, W2)))}

StampNext ==
    \E p \in Procs :
        \/ \E r \in StampRequests : AddProgramBegin(p, r)
        \/ \E r \in StampRequests : AddChallengeBegin(p, r)
        \/ \E r \in StampRequests : RecommendClassBegin(p, r)
        \/ AddProgramScan(p)
        \/ AddProgramPut(p)
        \/ AddChallengeScan(p)
        \/ AddChallengePut(p)
        \/ RecommendClassScan(p)
        \/ RecommendClassPut(p)

StampSpec == Init /\ [][StampNext]_vars

-----------------------------------------------------------------------------
(* RecSeqSpec: recommendations one after another, among them the same workout with
   another snapshot of its data *)

\* W1 as the catalog describes it once its difficulty estimate has moved
W1Rerated == [W1 EXCEPT !.Difficulty = 7]

RecSeqRequests ==
    {RecommendClassReq(u, RecommendationBody(f, w)) :
        u \in {UserA, UserB}, f \in {UserA, UserB}, w \in {W1, W1Rerated, W2}}

RecSeqNext ==
    \/ \E r \in RecSeqRequests : RecommendClassBegin(1, r)
    \/ RecommendClassScan(1)
    \/ RecommendClassPut(1)

RecSeqSpec == Init /\ [][RecSeqNext]_vars

-----------------------------------------------------------------------------
(* BlankSpec: programs and challenges with blank, padded and plain names *)

BlankNames == {<<>>, <<Space>>, <<Space, Space>>, NameP, Padded(NameP)}

BlankRequests ==
    {AddProgramReq(UserA, SimpleProgram(n, pub)) : n \in BlankNames, pub \in BOOLEAN}
    \cup {AddChallengeReq(UserA, SimpleChallenge(n, pub), NowLater) :
            n \in BlankNames, pub \in BOOLEAN}

BlankNext ==
    \/ \E r \in BlankRequests : AddProgramBegin(1, r)
    \/ \E r \in BlankRequests : AddChallengeBegin(1, r)
    \/ AddProgramScan(1)
    \/ AddProgramPut(1)
    \/ AddChallengeScan(1)
    \/ AddChallengePut(1)

BlankSpec == Init /\ [][BlankNext]_vars

-----------------------------------------------------------------------------
(* ProxySpec: bookmarks and unbookmarks against an upstream that answers with any
   status, or not at all *)

\* the status codes the model's upstream answers with
UpstreamStatuses == {200, 201, 204, 304, 400, 404, 503}

UpstreamHeaders == {NoHeaders, [h \in {"Date"} |-> <<"d">>]}

UpstreamBodies == {<<>>, <<"{", "}">>}

UpstreamOutcomes ==
    {DoFailed}
    \cup {ReadFailed(c, h) : c \in UpstreamStatuses, h \in UpstreamHeaders}
    \cup {Response(c, h, b) : c \in UpstreamStatuses, h \in UpstreamHeaders,
                              b \in UpstreamBodies}

FavoriteReq(op, body, hasCookie) ==
    Request(op, FALSE, <<>>, NoPath, body, NowLater)
        @@ [hasCookie |-> hasCookie, Cookie |-> IF hasCookie THEN <<"s">> ELSE <<>>]

ProxyRequests ==
    {FavoriteReq(op, body, c) :
        op \in {"bookmarkClass", "unbookmarkClass"},
        body \in {Malformed, [RideID |-> <<Space>>], [RideID |-> Padded(<<"r">>)]},
        c \in BOOLEAN}

ProxyNext ==
    \/ \E r \in ProxyRequests : BookmarkClassBegin(1, r)
    \/ \E r \in ProxyRequests : UnbookmarkClassBegin(1, r)
    \/ BookmarkClassCall(1, UpstreamOutcomes)
    \/ UnbookmarkClassCall(1, UpstreamOutcomes)

ProxySpec == Init /\ [][ProxyNext]_vars

-----------------------------------------------------------------------------
(* TermSpec: overlapping creations and deletes, every store call returning *)

TermRequests ==
    {AddChallengeReq(UserA, SimpleChallenge(NameP, FALSE), NowLater),
     RecommendClassReq(UserA, RecommendationBody(UserB, W1)),
     DeleteByIDReq(UserA, "challengeId", Uuid(1)),
     DeleteChallengeReq(UserA, Uuid(1))}

\* an invocation enters slot p
TermBegin(p) ==
    \/ \E r \in TermRequests : AddChallengeBegin(p, r)
    \/ \E r \in TermRequests : RecommendClassBegin(p, r)
    \/ \E r \in TermRequests : DeleteByIDBegin(p, r)
    \/ \E r \in TermRequests : DeleteChallengeBegin(p, r)

\* the store call the invocation in slot p waits for returns, and the handler goes on
StoreCallReturns(p) ==
    \/ AddChallengeScan(p)
    \/ AddChallengePut(p)
    \/ RecommendClassScan(p)
    \/ RecommendClassPut(p)
    \/ DeleteByIDGet(p)
    \/ DeleteByIDDelete(p)
    \/ DeleteChallengeGet(p)
    \/ DeleteChallengeDelete(p)

TermNext == \E p \in Procs : TermBegin(p) \/ StoreCallReturns(p)

\* every store call returns: a handler that waits for one goes on
TermSpec == Init /\ [][TermNext]_vars /\ \A p \in Procs : WF_vars(StoreCallReturns(p))

-----------------------------------------------------------------------------
(* RuleSpec: challenges and programs that break any number of validation rules *)

RuleRequests ==
    ChallengeRequests
    \cup {AddProgramReq(UserA, ProgramBody(n, <<"d">>, FALSE, <<<<"bike">>>>, w, ws)) :
            n \in {NameP, <<Space>>, <<>>}, w \in {0 - 1, 0, 1}, ws \in {<<>>, <<<<W1>>>>}}

RuleNext ==
    \/ \E r \in RuleRequests : AddChallengeBegin(1, r)
    \/ \E r \in RuleRequests : AddProgramBegin(1, r)
    \/ AddChallengeScan(1)
    \/ AddChallengePut(1)
    \/ AddProgramScan(1)
    \/ AddProgramPut(1)

RuleSpec == Init /\ [][RuleNext]_vars

-----------------------------------------------------------------------------
(* DifficultySpec: challenges of small and large difficulty, written and read back *)

\* difficulties of the requests, in hundredths: 0, 0.04, 0.06, 0.5, 1.26
Difficulties == {0, 4, 6, 50, 126}

DifficultyCreates ==
    {AddChallengeReq(UserA,
        ChallengeBody(Itoa(d), TRUE, d, 1, Tomorrow, Tomorrow, <<<<"cycling">>>>),
        NowLater) : d \in Difficulties}

DifficultyReads ==
    {GetChallengesReq(UserA, [a \in {"challengeId"} |-> Uuid(n)]) : n \in 1..MaxIds}
    \cup {GetChallengesReq(UserA, NoPath)}

DifficultyNext ==
    \/ \E r \in DifficultyCreates : AddChallengeBegin(1, r)
    \/ AddChallengeScan(1)
    \/ AddChallengePut(1)
    \/ \E r \in DifficultyReads : GetChallengesBegin(2, r)
    \/ GetChallengeByID(2)
    \/ GetAllChallenges(2)

DifficultySpec == Init /\ [][DifficultyNext]_vars

-----------------------------------------------------------------------------
(* ClockSpec: challenges that start yesterday, today or tomorrow, sent at the midnight
   that starts today and later on that day *)

ClockRequests ==
    {AddChallengeReq(UserA,
        ChallengeBody(n, pub, 50, 1, sd, Tomorrow, <<<<"cycling">>>>), now) :
        n \in {<<"P">>, <<"Q">>}, pub \in BOOLEAN,
        sd \in {Yesterday, Today, Tomorrow}, now \in {NowMidnight, NowLater}}

ClockNext ==
    \/ \E r \in ClockRequests : AddChallengeBegin(1, r)
    \/ AddChallengeScan(1)
    \/ AddChallengePut(1)

ClockSpec == Init /\ [][ClockNext]_vars

-----------------------------------------------------------------------------
(* EnvSpec: creations and deletes in deployments that lack table_region, table_name
   or both *)

Envs == [table_region : BOOLEAN, table_name : BOOLEAN]

EnvRequests ==
    {[r EXCEPT !.env = e] :
        r \in {AddChallengeReq(UserA, SimpleChallenge(NameP, FALSE), NowLater),
               AddChallengeReq(UserA, SimpleChallenge(<<"Q">>, TRUE), NowLater),
               Request("addChallenge", FALSE, <<>>, NoPath,
                       SimpleChallenge(NameP, FALSE), NowLater),
               DeleteByIDReq(UserA, "challengeId", Uuid(1)),
               DeleteByIDReq(UserB, "challengeId", Uuid(1)),
               Request("DeleteByID", FALSE, <<>>, [a \in {"challengeId"} |-> Uuid(1)],
                       Malformed, NowLater)},
        e \in Envs}

EnvNext ==
    \/ \E r \in EnvRequests : AddChallengeBegin(1, r)
    \/ \E r \in EnvRequests : DeleteByIDBegin(1, r)
    \/ AddChallengeScan(1)
    \/ AddChallengePut(1)
    \/ DeleteByIDGet(1)
    \/ DeleteByIDDelete(1)

EnvSpec == Init /\ [][EnvNext]_vars

-----------------------------------------------------------------------------
(* RecReadersSpec: recommendations between two users, read by each reader of
   recommendations in the repository *)

UserC == <<"c">>

\* an id no record carries
UnknownID == <<"n", "o">>

RecReadersOps == {"getRecommendations", GetRecommendationsOp}

\* slot 1 creates recommendations between the two users
RecReadersCreates ==
    {RecommendClassReq(UserA, RecommendationBody(UserB, W1)),
     RecommendClassReq(UserB, RecommendationBody(UserA, W2))}

\* slot 2 reads by id as the creator, the recipient and a third user, and lists by
\* type, with each reader
RecReadersReads ==
    {Request(op, TRUE, u, [a \in {"recommendationId"} |-> id], Malformed, NowLater)
        @@ [query |-> NoPath] :
        op \in RecReadersOps, u \in {UserA, UserB, UserC}, id \in {Uuid(1), UnknownID}}
    \cup {Request(op, TRUE, u, NoPath, Malformed, NowLater)
            @@ [query |-> [a \in {"type"} |-> t]] :
            op \in RecReadersOps, u \in {UserA, UserB},
            t \in {ByMe, ForMe, <<"m", "i", "n", "e">>}}

RecReadersNext ==
    \/ \E r \in RecReadersCreates : RecommendClassBegin(1, r)
    \/ RecommendClassScan(1)
    \/ RecommendClassPut(1)
    \/ \E r \in RecReadersReads : GetRecommendationsBegin(2, r)
    \/ GetRecommendationByID(2)
    \/ GetAllRecommendations(2)
    \/ \E r \in RecReadersReads : GetRecommendationsGetPrograms(2, r)
    \/ GetRecommendationsGetItemByID(2)
    \/ GetRecommendationsGetAllItems(2)

RecReadersSpec == Init /\ [][RecReadersNext]_vars

-----------------------------------------------------------------------------
(* Part001Spec: public and private programs of one user, read through the reader of
   src/unnamed/part_001 *)

Part001Creates ==
    {AddProgramReq(UserA, SimpleProgram(NameP, FALSE)),
     AddProgramReq(UserA, SimpleProgram(<<"Q">>, TRUE))}

\* slot 2 reads by id as the owner and as another user, and lists
Part001Reads ==
    {Request(Part001Op, TRUE, u, [a \in {"programId"} |-> id], Malformed, NowLater) :
        u \in {UserA, UserB}, id \in {Uuid(1), Uuid(2), UnknownID}}
    \cup {Request(Part001Op, TRUE, u, NoPath, Malformed, NowLater) : u \in {UserA, UserB}}

Part001Next ==
    \/ \E r \in Part001Creates : AddProgramBegin(1, r)
    \/ AddProgramScan(1)
    \/ AddProgramPut(1)
    \/ \E r \in Part001Reads : Part001GetPrograms(2, r)
    \/ Part001GetItemByID(2)
    \/ Part001GetAllItems(2)

Part001Spec == Init /\ [][Part001Next]_vars

-----------------------------------------------------------------------------
(* Vocabulary of the properties *)

IsProgram(item) == Has(item, "NumWeeks")
IsChallenge(item) == Has(item, "StartDate")
IsRecommendation(item) == Has(item, "RecommendedFor")

\* the items of the kind the handler creates
OfKind(op, item) ==
    CASE op = "addProgram" -> IsProgram(item)
      [] op = "addChallenge" -> IsChallenge(item)
      [] op = "recommendClass" -> IsRecommendation(item)

NamedOps == {"addProgram", "addChallenge"}

\* the caller a request identifies: its UserID header, trimmed
Caller(r) == TrimSpace(HeaderUserID(r))

\* the name a creation asks for, as its handler takes it (addProgram trims it)
RequestName(r) == IF r.op = "addProgram" THEN TrimSpace(r.body.Name) ELSE r.body.Name

Items == {store[id] : id \in DOMAIN store}

CallsOf(p) == {calls[p][i] : i \in 1..Len(calls[p])}

\* the 500 a handler answers when its store call failed
StoreFailed(r) ==
    /\ r.status = StatusInternalServerError
    /\ ~r.goErr
    /\ r.args # <<>>
    /\ r.args[Len(r.args)] = StoreErrText

\* the 400 of nameValidation for the request
DuplicateName(r) ==
    ErrBody(StatusBadRequest,
            IF r.op = "addProgram" THEN "A program with the name %s already exists"
                                   ELSE "A challenge with the name %s already exists",
            <<RequestName(r)>>)

\* the record a 200 reply announces is in the table
Written(p) == resp[p].status = StatusOK /\ resp[p].data.ID \in DOMAIN store

-----------------------------------------------------------------------------
(* C1 *)

\* the store holds (a) a public entity of the kind with the name of a public request,
\* or (b) an entity of the caller with the name of a private request
NameTaken(r) ==
    \/ /\ r.body.Public
       /\ \E i \in Items : /\ OfKind(r.op, i)
                           /\ i.Public
                           /\ i.Name = RequestName(r)
    \/ /\ ~r.body.Public
       /\ \E i \in Items : /\ Has(i, "Name")
                           /\ i.Name = RequestName(r)
                           /\ i.CreatedBy = Caller(r)

\* C1: with invocations one after another, addProgram and addChallenge answer a
\* creation whose name is taken (a public name among the public entities of the
\* kind, a private name among the caller's entities) with 400 "A program/challenge
\* with the name <name> already exists" and write nothing, unless the scan itself
\* failed (500).
C1_TakenNameRejected ==
    \A p \in Procs :
        (/\ pc[p] = "done"
         /\ req[p].op \in NamedOps
         /\ resp[p].status # StatusOK
         /\ NameTaken(req[p]))
        => /\ resp[p] = DuplicateName(req[p]) \/ StoreFailed(resp[p])
           /\ "PutItem" \notin CallsOf(p)

\* C1, the same for a creation that was answered 200: the name was not taken by
\* another record
C1_WrittenNameWasFree ==
    \A p \in Procs :
        (/\ pc[p] = "done"
         /\ req[p].op \in NamedOps
         /\ resp[p].status = StatusOK)
        => LET r == req[p]
               others == {store[id] : id \in DOMAIN store \ {resp[p].data.ID}}
           IN  /\ r.body.Public =>
                    ~\E i \in others : OfKind(r.op, i) /\ i.Public /\ i.Name = RequestName(r)
               /\ ~r.body.Public =>
                    ~\E i \in others : /\ Has(i, "Name")
                                        /\ i.Name = RequestName(r)
                                        /\ i.CreatedBy = Caller(r)

\* C1: both halves: a taken name is answered 400 with the duplicate message and no
\* put, and a creation answered 200 never took a name that was taken.
C1_NamesUnique == C1_TakenNameRejected /\ C1_WrittenNameWasFree

\* a public program was refused because another user's public program has the name
C1_Witness ==
    /\ pc[1] = "done"
    /\ req[1].op = "addProgram"
    /\ req[1].body.Public
    /\ resp[1] = DuplicateName(req[1])
    /\ \E i \in Items : /\ IsProgram(i) /\ i.Public /\ i.Name = RequestName(req[1])
                        /\ i.CreatedBy # Caller(req[1])


-----------------------------------------------------------------------------
(* C2 *)

\* the stored entities that carry the requested name, the invocation's own record
\* left out
SameNameOthers(p) ==
    {store[id] : id \in {k \in DOMAIN store :
                            /\ Has(store[k], "Name")
                            /\ store[k].Name = RequestName(req[p])
                            /\ ~(resp[p].status = StatusOK /\ k = resp[p].data.ID)}}

\* C2: with invocations one after another, a valid addProgram or addChallenge whose
\* name is carried by stored entities that are all private and owned by other users
\* is answered 200 and its record is written, public or private, unless a store call
\* failed (500).
C2_PrivateNameOfOthersIsFree ==
    \A p \in Procs :
        (/\ pc[p] = "done"
         /\ req[p].op \in NamedOps
         /\ SameNameOthers(p) # {}
         /\ \A i \in SameNameOthers(p) : ~i.Public /\ i.CreatedBy # Caller(req[p]))
        => \/ StoreFailed(resp[p])
           \/ /\ Written(p)
              /\ LET item == store[resp[p].data.ID]
                 IN  /\ OfKind(req[p].op, item)
                     /\ item.Name = RequestName(req[p])
                     /\ item.Public = req[p].body.Public
                     /\ item.CreatedBy = Caller(req[p])

\* a public challenge was created under the name of another user's private program
C2_Witness ==
    /\ pc[1] = "done"
    /\ req[1].op = "addChallenge"
    /\ req[1].body.Public
    /\ Written(1)
    /\ SameNameOthers(1) # {}
    /\ \A i \in SameNameOthers(1) : IsProgram(i) /\ ~i.Public /\ i.CreatedBy # Caller(req[1])

\* a private program was created under the name of another user's private program
C2_WitnessPrivate ==
    /\ pc[1] = "done"
    /\ req[1].op = "addProgram"
    /\ ~req[1].body.Public
    /\ Written(1)
    /\ SameNameOthers(1) # {}
    /\ \A i \in SameNameOthers(1) : IsProgram(i) /\ ~i.Public /\ i.CreatedBy # Caller(req[1])

-----------------------------------------------------------------------------
(* C3 *)

\* the uniqueness key of the creation in slot p is carried by the item
SameKey(p, item) ==
    CASE req[p].op = "addProgram" -> ProgramNameFilter(loc[p].cp, item)
      [] req[p].op = "addChallenge" -> ChallengeNameFilter(loc[p].c, item)
      [] req[p].op = "recommendClass" ->
            RecommendationFilter(loc[p].rec, loc[p].workoutData, item)

\* C3: nothing ties the scan of a creation to its put.  A scan that finds no record
\* with the key lets the invocation go on to its put whatever the other invocations
\* are about to write, and the put writes the record and answers 200 whatever the
\* table holds by then; only a failed store call (500) stops either.
C3_CheckThenActNotAtomic ==
    [][\A p \in Procs :
        /\ (/\ pc[p] = "scan"
            /\ req[p].op \in CreateOps
            /\ pc'[p] # "scan"
            /\ ~\E i \in Items : SameKey(p, i))
           => pc'[p] = "put" \/ StoreFailed(resp'[p])
        /\ (/\ pc[p] = "put"
            /\ req[p].op \in CreateOps
            /\ pc'[p] # "put")
           => \/ StoreFailed(resp'[p]) /\ store' = store
              \/ /\ resp'[p].status = StatusOK
                 /\ resp'[p].data.ID \in DOMAIN store'
                 /\ \A id \in DOMAIN store : id \in DOMAIN store' /\ store'[id] = store[id]
      ]_vars

\* two overlapping creations of the same kind were both answered 200 and both wrote
TwoWritten(op) ==
    \E p, q \in Procs :
        /\ p # q
        /\ pc[p] = "done" /\ pc[q] = "done"
        /\ req[p].op = op /\ req[q].op = op
        /\ Written(p) /\ Written(q)
        /\ resp[p].data.ID # resp[q].data.ID

\* two public programs with the same name are stored, both creations answered 200
C3_Witness ==
    /\ TwoWritten("addProgram")
    /\ \E i, j \in Items : /\ i.Id # j.Id
                           /\ IsProgram(i) /\ IsProgram(j)
                           /\ i.Public /\ j.Public
                           /\ i.Name = j.Name

\* two private challenges of one owner with the same name are stored
C3_WitnessOwnerName ==
    /\ TwoWritten("addChallenge")
    /\ \E i, j \in Items : /\ i.Id # j.Id
                           /\ IsChallenge(i) /\ IsChallenge(j)
                           /\ ~i.Public /\ ~j.Public
                           /\ i.CreatedBy = j.CreatedBy
                           /\ i.Name = j.Name

\* two recommendations with the same creator, recipient and workout are stored
C3_WitnessTriple ==
    /\ TwoWritten("recommendClass")
    /\ \E i, j \in Items : /\ i.Id # j.Id
                           /\ IsRecommendation(i) /\ IsRecommendation(j)
                           /\ i.CreatedBy = j.CreatedBy
                           /\ i.RecommendedFor = j.RecommendedFor
                           /\ i.Workout = j.Workout

-----------------------------------------------------------------------------
(* C4 *)

\* C4: addProgram, addChallenge and recommendClass answer a request whose UserID
\* header is absent or blank after trimming with 400 "UserID header is required",
\* and a request with the header whose body does not parse with 400 "Invalid request
\* body"; neither issues a scan or a put.
C4_HeaderAndBodyChecked ==
    \A p \in Procs :
        (pc[p] = "done" /\ req[p].op \in CreateOps)
        => /\ (~req[p].hasUserID \/ TrimSpace(req[p].UserID) = <<>>)
              => /\ resp[p] = ErrBody(StatusBadRequest, "UserID header is required", <<>>)
                 /\ calls[p] = <<>>
           /\ (/\ req[p].hasUserID
               /\ TrimSpace(req[p].UserID) # <<>>
               /\ req[p].body = Malformed)
              => /\ resp[p] = ErrBody(StatusBadRequest, "Invalid request body", <<>>)
                 /\ calls[p] = <<>>

\* a header of one space was refused although the body was valid
C4_Witness ==
    /\ pc[1] = "done"
    /\ req[1].op = "recommendClass"
    /\ req[1].hasUserID
    /\ req[1].UserID = <<Space>>
    /\ req[1].body # Malformed
    /\ resp[1] = ErrBody(StatusBadRequest, "UserID header is required", <<>>)
    /\ calls[1] = <<>>

\* a body that does not parse was refused although the header was there
C4_WitnessBody ==
    /\ pc[1] = "done"
    /\ req[1].op = "addProgram"
    /\ req[1].UserID = UserA
    /\ req[1].body = Malformed
    /\ resp[1] = ErrBody(StatusBadRequest, "Invalid request body", <<>>)
    /\ calls[1] = <<>>

-----------------------------------------------------------------------------
(* C5 *)

\* C5: recommendClass answers a request whose recommendedFor is the caller (the
\* trimmed UserID header) with 400 "Unable to recommend a class to yourself" without
\* a store call, and no stored recommendation has its recipient equal to its creator.
C5_NoSelfRecommendation ==
    /\ \A p \in Procs :
        (/\ pc[p] = "done"
         /\ req[p].op = "recommendClass"
         /\ ~UserIDMissing(req[p])
         /\ req[p].body # Malformed
         /\ req[p].body.RecommendedFor = Caller(req[p]))
        => /\ resp[p] = ErrBody(StatusBadRequest,
                                "Unable to recommend a class to yourself", <<>>)
           /\ calls[p] = <<>>
    /\ \A i \in Items : IsRecommendation(i) => i.RecommendedFor # i.CreatedBy

\* a caller whose header is padded recommended a class to themselves and was refused,
\* while a recommendation to someone else is stored
C5_Witness ==
    /\ pc[1] = "done"
    /\ req[1].op = "recommendClass"
    /\ req[1].UserID = Padded(UserA)
    /\ req[1].body # Malformed
    /\ req[1].body.RecommendedFor = UserA
    /\ resp[1].status = StatusBadRequest
    /\ \E i \in Items : IsRecommendation(i)

-----------------------------------------------------------------------------
(* C6 *)

\* both dates of the challenge body parse and the start is after the end
StartAfterEnd(c) ==
    /\ ParseDate(c.StartDate).ok
    /\ ParseDate(c.EndDate).ok
    /\ ParseDate(c.StartDate).t > ParseDate(c.EndDate).t

\* C6: addChallenge answers a request whose startDate is later than its endDate with
\* 400 whatever its other fields are, without a store call, and no stored challenge
\* has its endDate earlier than its startDate.
C6_StartNotAfterEnd ==
    /\ \A p \in Procs :
        (/\ pc[p] = "done"
         /\ req[p].op = "addChallenge"
         /\ req[p].body # Malformed
         /\ StartAfterEnd(req[p].body))
        => /\ resp[p].status = StatusBadRequest
           /\ ~resp[p].goErr
           /\ calls[p] = <<>>
    /\ \A i \in Items : IsChallenge(i) => ~StartAfterEnd(i)

\* a challenge that is valid but for the order of its dates was refused for it, while
\* a challenge is stored
C6_Witness ==
    /\ pc[1] = "done"
    /\ req[1].op = "addChallenge"
    /\ StartAfterEnd(req[1].body)
    /\ resp[1] = ErrBody(StatusBadRequest, "endDate must not be before startDate", <<>>)
    /\ \E i \in Items : IsChallenge(i)

\* a challenge with its dates in the wrong order and no name was refused
C6_WitnessOtherFields ==
    /\ pc[1] = "done"
    /\ req[1].op = "addChallenge"
    /\ StartAfterEnd(req[1].body)
    /\ req[1].body.Name = <<>>
    /\ resp[1].status = StatusBadRequest

-----------------------------------------------------------------------------
(* C7 *)

\* the members of a list
Members(list) == {list[i] : i \in 1..Len(list)}

\* slot 1 holds an addProgram answered 200 and slot 2 a getPrograms answered 200
\* for the id of that reply, sent by the same caller
RoundTrip ==
    /\ pc[1] = "done" /\ pc[2] = "done"
    /\ req[1].op = "addProgram"
    /\ resp[1].status = StatusOK
    /\ req[2].op = "getPrograms"
    /\ HasPath(req[2], "programId")
    /\ TrimSpace(req[2].path.programId) = resp[1].data.ID
    /\ Caller(req[2]) = Caller(req[1])
    /\ resp[2].status = StatusOK

\* C7 as stated: the record getPrograms returns for the id has the name,
\* description, public flag, equipment list, week count and workouts of the body
\* addProgram was sent.
C7_RoundTripEqualsBody ==
    RoundTrip =>
        LET B == req[1].body
            got == resp[2].data
        IN  /\ got.Name = B.Name
            /\ got.Description = B.Description
            /\ got.Public = B.Public
            /\ got.EquipmentNeeded = B.EquipmentNeeded
            /\ got.NumWeeks = B.NumWeeks
            /\ got.Workouts = B.Workouts

\* C7: the record getPrograms returns for the id has the name and the description
\* of the body with the surrounding white space trimmed, the public flag, week count
\* and workouts of the body, and the equipment of the body as a list with the same
\* members in some order; the id, the creator (the trimmed UserID header) and the
\* creation date (the clock at the put) are assigned by the server.
C7_RoundTripUpToTrimAndOrder ==
    RoundTrip =>
        LET B == req[1].body
            got == resp[2].data
        IN  /\ got.Name = TrimSpace(B.Name)
            /\ got.Description = TrimSpace(B.Description)
            /\ got.Public = B.Public
            /\ Members(got.EquipmentNeeded) = Members(B.EquipmentNeeded)
            /\ Len(got.EquipmentNeeded) = Len(B.EquipmentNeeded)
            /\ got.NumWeeks = B.NumWeeks
            /\ got.Workouts = B.Workouts
            /\ got.ID = resp[1].data.ID
            /\ got.CreatedBy = Caller(req[1])
            /\ got.CreatedDate = FormatRFC3339(req[1].now)

\* a program with a padded name, two pieces of equipment, twelve weeks and two weeks
\* of workouts was created and read back by its creator
C7_Witness ==
    /\ RoundTrip
    /\ req[1].body.Name = Padded(<<"Q">>)
    /\ Len(req[1].body.EquipmentNeeded) = 2
    /\ resp[2].data.EquipmentNeeded # req[1].body.EquipmentNeeded
    /\ req[1].body.NumWeeks = 12

-----------------------------------------------------------------------------
(* C8 *)

DeleteOps == {"DeleteByID", "deleteChallenge"}

\* the id a delete request names, as its handler takes it
TargetId(r) ==
    IF r.op = "DeleteByID" THEN FirstPathParam(r).id
    ELSE TrimSpace(PathParam(r, "challengeId"))

\* the 400 of a delete for an id the table does not hold
DoesNotExist(r) ==
    IF r.op = "DeleteByID"
    THEN ErrBody(StatusBadRequest, "The %s doesn't exist", <<Str(FirstPathParam(r).dataType)>>)
    ELSE ErrBody(StatusBadRequest, "The challenge doesn't exist", <<>>)

\* slot p takes the step that gets the item of its delete
GetStep(p) == pc[p] = "get" /\ req[p].op \in DeleteOps /\ pc'[p] # "get"

\* slot p takes the step that deletes the item of its delete
DeleteStep(p) == pc[p] = "delete" /\ req[p].op \in DeleteOps /\ pc'[p] # "delete"

\* C8: a delete whose id is not in the table when the handler gets it, be it an id
\* that never was there or one a delete has removed, is answered 400 "The <kind>
\* doesn't exist" (500 if the get itself failed); the handler does not panic and the
\* table is left as it was.
C8_DeleteOfAbsentId ==
    [][\A p \in Procs :
        (GetStep(p) /\ loc[p].id \notin DOMAIN store)
        => /\ pc'[p] = "done"
           /\ resp'[p] # Panic
           /\ resp'[p] = DoesNotExist(req[p]) \/ StoreFailed(resp'[p])
           /\ "DeleteItem" \notin CallsOf(p)
           /\ store' = store
      ]_vars

\* the owner's delete of a created challenge was answered 200, the id is gone, and a
\* delete of the same id by the same user was answered 400 "doesn't exist"
C8_Witness ==
    \E p, q \in Procs :
        /\ p # q
        /\ pc[p] = "done" /\ pc[q] = "done"
        /\ req[p].op \in DeleteOps /\ req[q].op \in DeleteOps
        /\ TargetId(req[p]) = Uuid(1) /\ TargetId(req[q]) = Uuid(1)
        /\ Caller(req[p]) = Caller(req[q])
        /\ resp[p].status = StatusOK
        /\ resp[q] = DoesNotExist(req[q])
        /\ nextId >= 1
        /\ Uuid(1) \notin DOMAIN store

-----------------------------------------------------------------------------
(* C9 *)

\* C9: an item leaves the table only in the delete step of an invocation whose
\* trimmed UserID header is the item's CreatedBy; a delete that gets an item of
\* another user is answered 401 "Must be the owner ..." (500 if the get failed),
\* goes no further and leaves the table as it was.
C9_OnlyOwnerDeletes ==
    [][/\ \A id \in DOMAIN store :
            id \notin DOMAIN store'
            => \E p \in Procs : /\ DeleteStep(p)
                                /\ TargetId(req[p]) = id
                                /\ Caller(req[p]) = store[id].CreatedBy
       /\ \A p \in Procs :
            (/\ GetStep(p)
             /\ loc[p].id \in DOMAIN store
             /\ store[loc[p].id].CreatedBy # Caller(req[p]))
            => /\ pc'[p] = "done"
               /\ \/ /\ resp'[p].status = StatusUnauthorized
                     /\ resp'[p].text \in {"Must be the owner of the %s to delete it",
                                           "Must be the owner of the challenge to delete it"}
                  \/ StoreFailed(resp'[p])
               /\ store' = store
      ]_vars

\* a delete by a user who does not own the challenge was answered 401 and the
\* challenge is still stored
C9_Witness ==
    \E p \in Procs :
        /\ pc[p] = "done"
        /\ req[p].op = "DeleteByID"
        /\ resp[p].status = StatusUnauthorized
        /\ TargetId(req[p]) \in DOMAIN store
        /\ store[TargetId(req[p])].CreatedBy # Caller(req[p])

-----------------------------------------------------------------------------
(* C10 *)

\* the reply of a delete that went through
Deleted(r) ==
    IF r.op = "DeleteByID"
    THEN ErrBody(StatusOK, "%s deleted", <<Str(FirstPathParam(r).dataType)>>)
    ELSE ErrBody(StatusOK, "Challenge deleted", <<>>)

\* C10: a delete that gets an item owned by its caller goes on to remove it (500 if
\* the get failed); the removal is answered 200, after it the table holds no item
\* with the id and every other item as before (500 and the table as before if the
\* removal failed).
C10_OwnerDeleteRemovesOnlyTheRecord ==
    [][\A p \in Procs :
        /\ (/\ GetStep(p)
            /\ loc[p].id \in DOMAIN store
            /\ store[loc[p].id].CreatedBy = Caller(req[p]))
           => pc'[p] = "delete" \/ StoreFailed(resp'[p])
        /\ DeleteStep(p)
           => /\ pc'[p] = "done"
              /\ \/ /\ resp'[p] = Deleted(req[p])
                    /\ DOMAIN store' = DOMAIN store \ {TargetId(req[p])}
                    /\ \A id \in DOMAIN store' : store'[id] = store[id]
                 \/ /\ StoreFailed(resp'[p])
                    /\ store' = store
      ]_vars

\* the owner's delete was answered 200, the id is gone and the challenge of the other
\* user is still stored
C10_Witness ==
    \E p \in Procs :
        /\ pc[p] = "done"
        /\ req[p].op = "deleteChallenge"
        /\ resp[p] = Deleted(req[p])
        /\ TargetId(req[p]) \notin DOMAIN store
        /\ \E i \in Items : IsChallenge(i) /\ i.CreatedBy # Caller(req[p])

-----------------------------------------------------------------------------
(* C11 *)

ReadOps == {"getPrograms", "getChallenges"}

\* the id a get-by-id asks for, as its handler takes it
ReadId(p) == IF req[p].op = "getPrograms" THEN loc[p].programID ELSE loc[p].challengeID

\* slot p takes the step that gets the item of its read by id
ReadByIdStep(p) == pc[p] = "get" /\ req[p].op \in ReadOps /\ pc'[p] = "done"

\* the record is public or the user owns it
VisibleTo(item, userID) ==
    \/ Has(item, "Public") /\ item.Public = TRUE
    \/ Has(item, "CreatedBy") /\ item.CreatedBy = userID

\* C11 as stated: a get by id whose store call succeeds is answered 400 when the
\* table has no record with the id, 401 when the record is neither public nor owned
\* by the requester, and otherwise 200 with the record of that id; no reply carries
\* a private record of another user.
C11_GetByIdAnswers ==
    [][\A p \in Procs :
        (ReadByIdStep(p) /\ ~StoreFailed(resp'[p]))
        => LET item == GetItem(ReadId(p))
           IN  IF DOMAIN item = {}
               THEN resp'[p].status = StatusBadRequest
               ELSE IF ~VisibleTo(item, loc[p].userID)
               THEN resp'[p].status = StatusUnauthorized /\ resp'[p].data = NoData
               ELSE /\ resp'[p].status = StatusOK
                    /\ resp'[p].data.ID = ReadId(p)
      ]_vars

\* getPrograms was asked for the id of a stored public challenge and panicked
C11_PanicOnOtherKind ==
    /\ pc[2] = "done"
    /\ req[2].op = "getPrograms"
    /\ HasPath(req[2], "programId")
    /\ resp[2] = Panic
    /\ req[2].path.programId \in DOMAIN store
    /\ IsChallenge(store[req[2].path.programId])
    /\ store[req[2].path.programId].Public

-----------------------------------------------------------------------------
(* C12 *)

\* slot p takes the step that scans for its list
ListStep(p) == pc[p] = "scan" /\ req[p].op \in ReadOps /\ pc'[p] = "done"

\* the stored records of the kind the handler lists
ListedKind(op, item) == IF op = "getPrograms" THEN IsProgram(item) ELSE IsChallenge(item)

\* C12 as stated: a list whose scan succeeds is answered 200 with exactly the stored
\* records of the kind that are public or owned by the requester, the empty list
\* when there is none.
C12_ListAnswers ==
    [][\A p \in Procs :
        (ListStep(p) /\ ~StoreFailed(resp'[p]))
        => LET visible == {i \in Items : /\ ListedKind(req[p].op, i)
                                         /\ VisibleTo(i, loc[p].userID)}
               data == resp'[p].data
           IN  /\ resp'[p].status = StatusOK
               /\ ~resp'[p].goErr
               /\ Len(data) = Cardinality(visible)
               /\ {data[k].ID : k \in 1..Len(data)} = {i.Id : i \in visible}
      ]_vars

\* getChallenges was asked for the list while a public program was stored and panicked
C12_PanicOnOtherKind ==
    /\ pc[2] = "done"
    /\ req[2].op = "getChallenges"
    /\ ~HasPath(req[2], "challengeId")
    /\ resp[2] = Panic
    /\ \E i \in Items : IsProgram(i) /\ i.Public

-----------------------------------------------------------------------------
(* C13 *)

\* the stored recommendations a list of the type is to return to the user
RecommendationsOfType(recType, userID) ==
    {i \in Items :
        /\ IsRecommendation(i)
        /\ \/ recType \in {ForMe, All} /\ i.RecommendedFor = userID
           \/ recType \in {ByMe, All} /\ i.CreatedBy = userID}

\* C13 as stated: a list of recommendations takes its type trimmed and in lower
\* case, 'forme' when it is absent or empty; any type but forme, byme and all is
\* answered 400 without a store call; a list whose scan succeeds is answered 200 with
\* exactly the recommendations for the requester (forme), by the requester (byme), or
\* both (all).
C13_ListByType ==
    [][\A p \in Procs :
        /\ (/\ pc'[p] = "done"
            /\ pc[p] # "scan"
            /\ req'[p].op = "getRecommendations"
            /\ ~UserIDMissing(req'[p])
            /\ TrimSpace(PathParam(req'[p], "recommendationId")) = <<>>
            /\ calls'[p] = <<>>)
           => /\ RecTypeOf(req'[p]) \notin {ForMe, ByMe, All}
              /\ resp'[p].status = StatusBadRequest
        /\ (/\ pc[p] = "scan"
            /\ req[p].op = "getRecommendations"
            /\ pc'[p] = "done"
            /\ ~StoreFailed(resp'[p]))
           => LET expected == RecommendationsOfType(RecTypeOf(req[p]), Caller(req[p]))
                  data == resp'[p].data
              IN  /\ RecTypeOf(req[p]) \in {ForMe, ByMe, All}
                  /\ resp'[p].status = StatusOK
                  /\ ~resp'[p].goErr
                  /\ Len(data) = Cardinality(expected)
                  /\ {data[k].ID : k \in 1..Len(data)} = {i.Id : i \in expected}
      ]_vars

\* a user who has created a program listed the recommendations 'byme' and the
\* handler panicked
C13_PanicOnOtherKind ==
    /\ pc[2] = "done"
    /\ req[2].op = "getRecommendations"
    /\ RecTypeOf(req[2]) = ByMe
    /\ resp[2] = Panic
    /\ \E i \in Items : IsProgram(i) /\ i.CreatedBy = Caller(req[2])

-----------------------------------------------------------------------------
(* C14 *)

\* slot p takes the put step of its creation
PutStep(p) == pc[p] = "put" /\ req[p].op \in CreateOps /\ pc'[p] = "done"

\* C14: every change of the table by a create handler adds one record, under an id
\* the table did not hold, with that id as its Id and the trimmed UserID header of
\* the invocation as its CreatedBy, whatever id and createdBy the body carries; the
\* 200 reply carries the same id and owner; no other record changes.
C14_FreshIdAndOwnerStamped ==
    [][/\ store' # store
          => \E p \in Procs :
                /\ PutStep(p)
                /\ resp'[p].status = StatusOK
                /\ LET id == resp'[p].data.ID
                   IN  /\ id \notin DOMAIN store
                       /\ DOMAIN store' = DOMAIN store \cup {id}
                       /\ \A k \in DOMAIN store : store'[k] = store[k]
                       /\ store'[id].Id = id
                       /\ store'[id].CreatedBy = Caller(req[p])
                       /\ resp'[p].data.CreatedBy = Caller(req[p])
       /\ \A p \in Procs :
            (PutStep(p) /\ resp'[p].status = StatusOK) => store' # store
      ]_vars

\* a recommendation whose body named the first record's id and another creator was
\* stored under a new id with the caller as its creator, the first record still there
C14_Witness ==
    \E p \in Procs :
        /\ pc[p] = "done"
        /\ req[p].op = "recommendClass"
        /\ req[p].body.ID = Uuid(1)
        /\ req[p].body.CreatedBy = UserB
        /\ Written(p)
        /\ resp[p].data.ID # Uuid(1)
        /\ store[resp[p].data.ID].CreatedBy = UserA
        /\ Uuid(1) \in DOMAIN store
        /\ ~IsRecommendation(store[Uuid(1)])

-----------------------------------------------------------------------------
(* C15 *)

\* slot p takes the scan step of its creation
ScanStep(p) == pc[p] = "scan" /\ req[p].op \in CreateOps /\ pc'[p] # "scan"

\* the 500 of a create handler whose scan failed, with the text of the store's error
ScanFailed(op) ==
    ErrBody(StatusInternalServerError,
            CASE op = "addProgram" -> "Unable to get existing programs: %s"
              [] op = "addChallenge" -> "Unable to get existing challenges: %s"
              [] op = "recommendClass" -> "Unable to get existing recommendations: %s",
            <<StoreErrText>>)

\* the 500 of a create handler whose put failed, with the text of the store's error
PutFailed(op) ==
    ErrBody(StatusInternalServerError,
            CASE op = "addProgram" -> "Unable to save custom program: %s"
              [] op = "addChallenge" -> "Unable to save custom challenge: %s"
              [] op = "recommendClass" -> "Unable to save recommendation: %s",
            <<StoreErrText>>)

\* C15: a create handler's scan step ends in the put step, in a 400, or in the 500
\* that carries the scan's error text, and then no put is issued; its put step ends
\* in 200 with the record written, or in the 500 that carries the put's error text
\* with the table as it was; a create handler answers 200 in no other step.
C15_StoreErrorsAnswered500 ==
    [][\A p \in Procs :
        /\ ScanStep(p)
           => /\ store' = store
              /\ \/ pc'[p] = "put"
                 \/ /\ pc'[p] = "done"
                    /\ "PutItem" \notin {calls'[p][i] : i \in 1..Len(calls'[p])}
                    /\ \/ resp'[p].status = StatusBadRequest
                       \/ resp'[p] = ScanFailed(req[p].op)
        /\ PutStep(p)
           => \/ /\ resp'[p].status = StatusOK
                 /\ resp'[p].data.ID \in DOMAIN store'
                 /\ resp'[p].data.ID \notin DOMAIN store
              \/ /\ resp'[p] = PutFailed(req[p].op)
                 /\ store' = store
        /\ (/\ req'[p].op \in CreateOps
            /\ resp'[p].status = StatusOK
            /\ resp[p] # resp'[p])
           => PutStep(p)
      ]_vars

\* a put failed: the challenge's creation was answered 500 after its scan and its
\* put, and the table is empty
C15_Witness ==
    \E p \in Procs :
        /\ pc[p] = "done"
        /\ req[p].op = "addChallenge"
        /\ resp[p] = PutFailed("addChallenge")
        /\ calls[p] = <<"Scan", "PutItem">>
        /\ store = NoItem

\* a scan failed: the program's creation was answered 500 after its scan alone
C15_WitnessScan ==
    \E p \in Procs :
        /\ pc[p] = "done"
        /\ req[p].op = "addProgram"
        /\ resp[p] = ScanFailed("addProgram")
        /\ calls[p] = <<"Scan">>

-----------------------------------------------------------------------------
(* C16 *)

\* C16 as stated: with invocations one after another, no private program or
\* challenge shares its name with another entity of the same owner, private or
\* public, whichever of the two was created first.
C16_PrivateNameUniquePerOwner ==
    \A i, j \in Items :
        (/\ i.Id # j.Id
         /\ IsProgram(i) \/ IsChallenge(i)
         /\ ~i.Public
         /\ Has(j, "Name")
         /\ j.CreatedBy = i.CreatedBy)
        => j.Name # i.Name

\* the first record is a private program, the second a public program of the same
\* owner with the same name, and the second creation was answered 200
C16_PublicAfterPrivate ==
    /\ pc[1] = "done"
    /\ req[1].op = "addProgram"
    /\ req[1].body.Public
    /\ Written(1)
    /\ resp[1].data.ID = Uuid(2)
    /\ Uuid(1) \in DOMAIN store
    /\ IsProgram(store[Uuid(1)])
    /\ ~store[Uuid(1)].Public
    /\ store[Uuid(1)].CreatedBy = store[Uuid(2)].CreatedBy
    /\ store[Uuid(1)].Name = store[Uuid(2)].Name

-----------------------------------------------------------------------------
(* C17 *)

\* the id of the workout a stored recommendation embeds
WorkoutIdOf(item) == UnmarshalWorkout(item.Workout).ID

\* the stored recommendations of the creator to the recipient for the workout id
SameTriple(createdBy, recommendedFor, workoutId) ==
    {i \in Items : /\ IsRecommendation(i)
                   /\ i.CreatedBy = createdBy
                   /\ i.RecommendedFor = recommendedFor
                   /\ WorkoutIdOf(i) = workoutId}

\* C17: when recommendClass invocations run one after another, no two stored
\* recommendations have the same creator, the same recipient and the same workout id,
\* and a request for a triple that is stored is answered 400 'That recommendation
\* already exists'
C17_TripleUniqueByWorkoutId ==
    /\ \A i, j \in Items :
        (/\ IsRecommendation(i) /\ IsRecommendation(j)
         /\ i.CreatedBy = j.CreatedBy
         /\ i.RecommendedFor = j.RecommendedFor
         /\ WorkoutIdOf(i) = WorkoutIdOf(j))
        => i.Id = j.Id
    /\ (/\ pc[1] = "done"
        /\ req[1].op = "recommendClass"
        /\ resp[1].status = StatusOK)
       => Cardinality(SameTriple(Caller(req[1]), req[1].body.RecommendedFor,
                                 req[1].body.Workout.ID)) = 1

\* the same workout id was recommended twice by the same creator to the same recipient,
\* the second time with another snapshot, and both are stored
C17_SameWorkoutOtherSnapshot ==
    /\ pc[1] = "done" /\ req[1].op = "recommendClass"
    /\ Written(1) /\ resp[1].data.ID = Uuid(2)
    /\ Uuid(1) \in DOMAIN store
    /\ store[Uuid(1)].CreatedBy = store[Uuid(2)].CreatedBy
    /\ store[Uuid(1)].RecommendedFor = store[Uuid(2)].RecommendedFor
    /\ WorkoutIdOf(store[Uuid(1)]) = WorkoutIdOf(store[Uuid(2)])
    /\ store[Uuid(1)].Workout # store[Uuid(2)].Workout

-----------------------------------------------------------------------------
(* C18 *)

\* C18: name uniqueness is checked against entities of the same kind only: a creation
\* refused with 'A program/challenge with the name <name> already exists' has an
\* entity of its own kind with that name in the table, so a Challenge named N does not
\* make addProgram refuse a Program named N, nor a Program a Challenge
C18_RefusedOnlyBySameKind ==
    \A p \in Procs :
        (/\ pc[p] = "done"
         /\ req[p].op \in NamedOps
         /\ resp[p] = DuplicateName(req[p]))
        => \E i \in Items : OfKind(req[p].op, i) /\ i.Name = RequestName(req[p])

\* addProgram refused a name while the table held Challenges only
C18_ProgramRefusedByChallenge ==
    /\ pc[1] = "done" /\ req[1].op = "addProgram"
    /\ resp[1] = DuplicateName(req[1])
    /\ Items # {}
    /\ \A i \in Items : IsChallenge(i) /\ i.Name = RequestName(req[1])

\* addChallenge refused a name while the table held Programs only
C18_ChallengeRefusedByProgram ==
    /\ pc[1] = "done" /\ req[1].op = "addChallenge"
    /\ resp[1] = DuplicateName(req[1])
    /\ Items # {}
    /\ \A i \in Items : IsProgram(i) /\ i.Name = RequestName(req[1])

-----------------------------------------------------------------------------
(* C19 *)

\* the name is empty once its surrounding whitespace is removed
Blank(name) == TrimSpace(name) = <<>>

\* C19: addProgram and addChallenge answer a request whose name is empty after
\* trimming (a name of spaces included) with 400 'name is required in request body',
\* and no stored Program or Challenge has a name that is empty after trimming
C19_BlankNameRefused ==
    /\ \A p \in Procs :
        (/\ pc[p] = "done"
         /\ req[p].op \in NamedOps
         /\ ~UserIDMissing(req[p])
         /\ req[p].body # Malformed
         /\ Blank(req[p].body.Name))
        => resp[p] = ErrBody(StatusBadRequest, "name is required in request body", <<>>)
    /\ \A i \in Items : Has(i, "Name") => ~Blank(i.Name)

\* addChallenge wrote a Challenge whose name is made of spaces
C19_ChallengeNamedSpace ==
    /\ pc[1] = "done" /\ req[1].op = "addChallenge"
    /\ req[1].body.Name = <<Space>>
    /\ Written(1)
    /\ IsChallenge(store[resp[1].data.ID])
    /\ store[resp[1].data.ID].Name = <<Space>>

-----------------------------------------------------------------------------
(* C20 *)

ProxyOps == {"bookmarkClass", "unbookmarkClass"}

\* invocation p has answered after its call of PelotonRequest
Proxied(p) ==
    /\ pc[p] = "done"
    /\ req[p].op \in ProxyOps
    /\ Len(calls[p]) = 1

\* what the network came back with for the call of invocation p
Outcome(p) == calls[p][1].outcome

\* a 2xx status code
Success(code) == code \in 200..299

\* C20: a handler that proxies through PelotonRequest passes an upstream response that
\* is not a success back with the upstream's status code and body, answers a transport
\* failure without an upstream response with 500 and a local message, and answers an
\* upstream success with the upstream's success status
C20_UpstreamPassedThrough ==
    \A p \in Procs :
        Proxied(p) =>
            LET o == Outcome(p)
            IN  /\ (o.kind = "response" /\ ~Success(o.StatusCode))
                    => /\ resp[p].status = o.StatusCode
                       /\ Has(resp[p], "Body")
                       /\ resp[p].Body = o.Body
                /\ o.kind = "doError"
                    => /\ resp[p].status = StatusInternalServerError
                       /\ resp[p].text = "Unable to get categories from Peloton: %s"
                /\ (o.kind = "response" /\ Success(o.StatusCode))
                    => resp[p].status = o.StatusCode

\* upstream answered 304 and the handler answered 200 without a body
C20_NotModifiedAnswered200 ==
    /\ Proxied(1)
    /\ Outcome(1).kind = "response"
    /\ Outcome(1).StatusCode = 304
    /\ resp[1] = HeadersOnly(StatusOK, Outcome(1).Header)

-----------------------------------------------------------------------------
(* C21 *)

\* the error of the handler's header, body and field validation for the request, ""
\* when the request passes all of it
ValidationError(r) ==
    IF UserIDMissing(r) THEN "UserID header is required"
    ELSE IF r.body = Malformed THEN "Invalid request body"
    ELSE CASE r.op = "addProgram" ->
                ProgramBodyValidation([r.body EXCEPT !.Name = TrimSpace(r.body.Name)])
           [] r.op = "addChallenge" -> ChallengeBodyValidation(r.body, r.now)
           [] r.op = "recommendClass" ->
                RecommendationBodyValidation([r.body EXCEPT !.CreatedBy = Caller(r)])

\* the stored items the uniqueness filter of invocation p matches
MatchesOf(p) ==
    CASE req[p].op = "addProgram" ->
            {item \in Items : ProgramNameFilter(loc[p].cp, item)}
      [] req[p].op = "addChallenge" ->
            {item \in Items : ChallengeNameFilter(loc[p].c, item)}
      [] req[p].op = "recommendClass" ->
            {item \in Items : RecommendationFilter(loc[p].rec, loc[p].workoutData, item)}

\* C21: within one create invocation the steps come in the order validate, scan, put,
\* respond: the scan is the first store call and is issued only for a request that
\* passed validation, the put is issued only after a scan of the same invocation that
\* matched nothing, and after the put the invocation answers without another call
C21_StepsInOrder ==
    [][\A p \in Procs :
        /\ ScanStep(p)
           => /\ ValidationError(req[p]) = ""
              /\ calls[p] = <<>>
              /\ calls'[p] = <<"Scan">>
              /\ pc'[p] = "put" => MatchesOf(p) = {}
        /\ PutStep(p)
           => /\ calls[p] = <<"Scan">>
              /\ calls'[p] = <<"Scan", "PutItem">>
        /\ (req'[p].op \in CreateOps /\ pc'[p] = "put") => (ScanStep(p) \/ pc[p] = "put")
        /\ (req'[p].op \in CreateOps /\ pc'[p] = "scan")
           => (pc[p] \in {"idle", "done", "scan"} /\ ValidationError(req'[p]) = "")
      ]_vars

\* a program was written after its scan, and the same request was then refused by its
\* scan without a put
C21_Witness ==
    /\ pc[1] = "done"
    /\ req[1].op = "addProgram"
    /\ calls[1] = <<"Scan">>
    /\ resp[1] = DuplicateName(req[1])
    /\ \E i \in Items : IsProgram(i) /\ i.Name = RequestName(req[1])

-----------------------------------------------------------------------------
(* C22 *)

\* the store calls a create or delete invocation can have issued, in order
CallsAllowed(op) ==
    IF op \in CreateOps THEN {<<>>, <<"Scan">>, <<"Scan", "PutItem">>}
    ELSE IF op \in DeleteOps THEN {<<>>, <<"GetItem">>, <<"GetItem", "DeleteItem">>}
    ELSE {<<>>}

\* invocation p waits for a store call
InFlight(p) == pc[p] \in {"scan", "put", "get", "delete"}

\* C22: provided each store call returns, every create or delete invocation ends with
\* one response, after at most one scan or get and at most one put or delete; a store
\* call that failed is not issued again
C22_TerminatesWithoutRetry ==
    /\ [](\A p \in Procs : calls[p] \in CallsAllowed(req[p].op))
    /\ [][\A p \in Procs :
            /\ resp'[p] # resp[p] => (pc'[p] = "done" /\ (InFlight(p) \/ req'[p] # req[p]
                                                          \/ calls'[p] # calls[p]))
            /\ (pc'[p] = "done" /\ InFlight(p)) => resp'[p] # NoResp
            /\ (pc'[p] = "done" /\ InFlight(p) /\ StoreFailed(resp'[p]))
                => Len(calls'[p]) = Len(calls[p]) + 1
         ]_vars
    /\ \A p \in Procs : InFlight(p) ~> (pc[p] = "done" /\ resp[p] # NoResp)

\* a delete whose get failed ended with the 500 after that one call
C22_Witness ==
    \E p \in Procs :
        /\ pc[p] = "done"
        /\ req[p].op = "DeleteByID"
        /\ StoreFailed(resp[p])
        /\ calls[p] = <<"GetItem">>

-----------------------------------------------------------------------------
(* C23 *)

\* the validator's rules of addChallenge in their order: which of them the body
\* breaks at the instant now (a rule about a date's value is broken only by a date
\* that parses)
ChallengeRulesBroken(c, now) ==
    <<c.Name = <<>>,
      c.Difficulty <= 0,
      c.NumWorkoutGoal < 1,
      c.StartDate = <<>>,
      c.StartDate # <<>> /\ ~ParseDate(c.StartDate).ok,
      ParseDate(c.StartDate).ok /\ ParseDate(c.StartDate).t < now,
      c.EndDate = <<>>,
      c.EndDate # <<>> /\ ~ParseDate(c.EndDate).ok,
      /\ ParseDate(c.StartDate).ok /\ ParseDate(c.EndDate).ok
      /\ ParseDate(c.EndDate).t < ParseDate(c.StartDate).t,
      c.WorkoutTypes = <<>>>>

ChallengeRuleMessages ==
    <<"name is required in request body",
      "difficulty must be a number greater than 0",
      "numWorkoutGoal must be a number greater than 0",
      "startDate is required in request body",
      "startDate must be in the format of YYYY-MM-DD",
      "startDate must not be before today",
      "endDate is required in request body",
      "endDate must be in the format of YYYY-MM-DD",
      "endDate must not be before startDate",
      "workoutTypes must not be empty">>

\* the validator's rules of addProgram in their order, on the name as trimmed
ProgramRulesBroken(cp) ==
    <<TrimSpace(cp.Name) = <<>>, cp.NumWeeks < 1, cp.Workouts = <<>>>>

ProgramRuleMessages ==
    <<"name is required in request body",
      "numWeeks must be a number greater than 0",
      "workouts must not be empty">>

RulesBroken(r) ==
    IF r.op = "addChallenge" THEN ChallengeRulesBroken(r.body, r.now)
    ELSE ProgramRulesBroken(r.body)

RuleMessages(r) ==
    IF r.op = "addChallenge" THEN ChallengeRuleMessages ELSE ProgramRuleMessages

\* the rules of the request that are broken, by their place in the order
BrokenRules(r) == {i \in 1..Len(RulesBroken(r)) : RulesBroken(r)[i]}

\* the least of a non-empty set of numbers
Least(S) == CHOOSE i \in S : \A j \in S : i <= j

\* C23: a create request that breaks validation rules is answered 400 with the message
\* of the first broken rule in the validator's order, and a request that breaks none is
\* answered with no rule's message
C23_FirstBrokenRuleAnswered ==
    \A p \in Procs :
        (/\ pc[p] = "done"
         /\ req[p].op \in NamedOps
         /\ ~UserIDMissing(req[p])
         /\ req[p].body # Malformed)
        => IF BrokenRules(req[p]) # {}
           THEN resp[p] = ErrBody(StatusBadRequest,
                                  RuleMessages(req[p])[Least(BrokenRules(req[p]))], <<>>)
           ELSE \A i \in 1..Len(RuleMessages(req[p])) :
                    resp[p].text # RuleMessages(req[p])[i]

\* a challenge without a name, with a start date in a wrong format and without workout
\* types was answered with the name's message
C23_Witness ==
    /\ pc[1] = "done"
    /\ req[1].op = "addChallenge"
    /\ {1, 5, 10} \subseteq BrokenRules(req[1])
    /\ resp[1] = ErrBody(StatusBadRequest, "name is required in request body", <<>>)

-----------------------------------------------------------------------------
(* C24 *)

\* the ids the step adds to the table
AddedIds == DOMAIN store' \ DOMAIN store

\* C24: no step of a create invocation modifies, replaces or removes a record that is
\* in the table: every record stays under its id with its attributes, a create that
\* answers 200 adds exactly one record, and any other step adds none
C24_CreateLeavesRecordsAlone ==
    [][/\ \A id \in DOMAIN store : id \in DOMAIN store' /\ store'[id] = store[id]
       /\ \A p \in Procs :
            (PutStep(p) /\ resp'[p].status = StatusOK)
                => /\ Cardinality(AddedIds) = 1
                   /\ AddedIds = {resp'[p].data.ID}
       /\ (\A p \in Procs : ~(PutStep(p) /\ resp'[p].status = StatusOK))
            => AddedIds = {}
      ]_vars

\* a second creation was written while the first record stayed as it was
C24_Witness ==
    \E p \in Procs :
        /\ pc[p] = "done"
        /\ req[p].op \in CreateOps
        /\ Written(p)
        /\ resp[p].data.ID = Uuid(2)
        /\ Uuid(1) \in DOMAIN store
        /\ store[Uuid(1)].Id = Uuid(1)
        /\ Cardinality(DOMAIN store) = 2

-----------------------------------------------------------------------------
(* C25 *)

\* the difficulty of a stored challenge, in hundredths
StoredDifficulty(item) == ParseFloat(item.Difficulty).h

\* C25: every challenge in the table has a difficulty greater than 0 as stored, and
\* every challenge getChallenges returns by id has a difficulty greater than 0
C25_DifficultyPositive ==
    /\ \A i \in Items : IsChallenge(i) => StoredDifficulty(i) > 0
    /\ \A p \in Procs :
        (/\ pc[p] = "done"
         /\ req[p].op = "getChallenges"
         /\ HasPath(req[p], "challengeId")
         /\ resp[p].status = StatusOK)
        => resp[p].data.Difficulty > 0

\* a challenge of difficulty 0.04 passed validation, was stored as "0.0" and was
\* returned by getChallenges with difficulty 0
C25_StoredAsZero ==
    /\ pc[2] = "done"
    /\ req[2].op = "getChallenges"
    /\ HasPath(req[2], "challengeId")
    /\ resp[2].status = StatusOK
    /\ resp[2].data.Difficulty = 0
    /\ \E i \in Items : /\ IsChallenge(i)
                        /\ i.Id = resp[2].data.ID
                        /\ i.Difficulty = <<"0", ".", "0">>
                        /\ i.Name = Itoa(4)

-----------------------------------------------------------------------------
(* C26 *)

\* the calendar day of an instant
DayOf(t) == t \div TicksPerDay

StartBeforeToday == ErrBody(StatusBadRequest, "startDate must not be before today", <<>>)

\* invocation p is an addChallenge that has answered, its start date a calendar date
StartDateJudged(p) ==
    /\ pc[p] = "done"
    /\ req[p].op = "addChallenge"
    /\ req[p].body # Malformed
    /\ ParseDate(req[p].body.StartDate).ok

C26_WitnessMidnight ==
    /\ StartDateJudged(1)
    /\ req[1].body.StartDate = Today
    /\ req[1].now = NowMidnight
    /\ Written(1)

-----------------------------------------------------------------------------
(* C27 *)

\* table_region or table_name is not set for the request
EnvMissing(r) == ~r.env.table_region \/ ~r.env.table_name

\* C27: when table_region or table_name is not set, the handler gets an error from
\* GetDBInfo and answers 500 with it, without a scan, get, put or delete
C27_MissingEnvAnswered500 ==
    \A p \in Procs :
        (/\ pc[p] = "done"
         /\ req[p].op \in {"addChallenge", "DeleteByID"}
         /\ ~UserIDMissing(req[p])
         /\ EnvMissing(req[p]))
        => /\ GetDBInfo(req[p].env).err \/ req[p].op = "DeleteByID"
           /\ resp[p].status = StatusInternalServerError
           /\ calls[p] = <<>>

\* addChallenge without table_region went on to its scan and its put
C27_ScanWithoutRegion ==
    /\ pc[1] = "done"
    /\ req[1].op = "addChallenge"
    /\ ~req[1].env.table_region
    /\ req[1].env.table_name
    /\ calls[1] = <<"Scan", "PutItem">>

-----------------------------------------------------------------------------
(* C28: who a recommendation is returned to by id *)

\* the user created the recommendation or is its recipient
PartyTo(item, userID) ==
    \/ Has(item, "CreatedBy") /\ item.CreatedBy = userID
    \/ Has(item, "RecommendedFor") /\ item.RecommendedFor = userID

\* slot p takes the step that gets the recommendation of its read by id
RecReadByIdStep(p) ==
    pc[p] = "get" /\ req[p].op \in RecReadersOps /\ pc'[p] = "done"

\* what the claim asks of the answer of a read by id on the item found
GatedAnswer(item, userID, r) ==
    IF DOMAIN item = {} THEN r.status = StatusBadRequest /\ r.data = NoData
    ELSE IF ~PartyTo(item, userID) THEN r.status = StatusUnauthorized /\ r.data = NoData
    ELSE r.status = StatusOK => r.data.ID = item.Id

\* C28 as stated: with either reader, a get by id of a recommendation whose store
\* call succeeds is answered 400 when no record has the id, 401 without data when
\* the requester is neither the creator nor the recipient, and 200 carries the
\* record and goes to the creator or the recipient only.
C28_RecommendationByIdGated ==
    [][\A p \in Procs :
        RecReadByIdStep(p) /\ ~StoreFailed(resp'[p])
        => GatedAnswer(GetItem(loc[p].recommendationID), loc[p].userID, resp'[p])]_vars

\* a third user asked the reader of services/getRecommendations for a stored
\* recommendation of two other users, and the handler panicked
C28_ThirdUserCrashes ==
    \E p \in Procs :
        /\ pc[p] = "done"
        /\ req[p].op = GetRecommendationsOp
        /\ HasPath(req[p], "recommendationId")
        /\ req[p].path.recommendationId \in DOMAIN store
        /\ ~PartyTo(store[req[p].path.recommendationId], Caller(req[p]))
        /\ resp[p] = Panic

-----------------------------------------------------------------------------
(* C29: the readers of recommendations against what recommendClass stores *)

\* slot p takes the step that scans for its list of recommendations
RecListStep(p) ==
    pc[p] = "scan" /\ req[p].op \in RecReadersOps /\ pc'[p] = "done"

\* the creator a returned recommendation names, under the field its reader gives it
CreatorOf(rec) ==
    IF "RecommendedBy" \in DOMAIN rec THEN rec.RecommendedBy ELSE rec.CreatedBy

\* the workout each creator of RecReadersCreates recommends
WorkoutSent(creator) == IF creator = UserA THEN W1 ELSE W2

\* the list carries the stored recommendation with creator, recipient and workout
Carries(data, item) ==
    \E k \in DOMAIN data :
        /\ data[k].ID = item.Id
        /\ CreatorOf(data[k]) = item.CreatedBy
        /\ data[k].RecommendedFor = item.RecommendedFor
        /\ data[k].Workout = WorkoutSent(item.CreatedBy)

\* the stored recommendations a list of the type is about, for the user
AskedFor(recType, userID) ==
    {item \in Items :
        \/ recType = ByMe /\ item.CreatedBy = userID
        \/ recType = ForMe /\ item.RecommendedFor = userID}

\* C29 as stated: with either reader, a list of type byme or forme whose scan
\* succeeds, made when a recommendation created by (byme) or for (forme) the user is
\* stored, is answered 200 with a list that carries that recommendation with its
\* creator, recipient and workout.
C29_ReadersAgreeWithWriter ==
    [][\A p \in Procs :
        RecListStep(p) /\ ~StoreFailed(resp'[p])
        => \A item \in AskedFor(loc[p].recType, loc[p].userID) :
              /\ resp'[p].status = StatusOK
              /\ Carries(resp'[p].data, item)]_vars

\* the reader of services/getRecommendations was asked for the recommendations made
\* for the user and panicked on the stored records
C29_ListCrashes ==
    \E p \in Procs :
        /\ pc[p] = "done"
        /\ req[p].op = GetRecommendationsOp
        /\ ~HasPath(req[p], "recommendationId")
        /\ RecTypeOf(req[p]) = ForMe
        /\ \E item \in Items : item.RecommendedFor = Caller(req[p])
        /\ resp[p] = Panic

-----------------------------------------------------------------------------
(* C30: a private program read by id through the reader of src/unnamed/part_001 *)

\* slot p takes the step that gets the program of its read by id
Part001ReadStep(p) ==
    pc[p] = "get" /\ req[p].op = Part001Op /\ pc'[p] = "done"

\* the program is private and belongs to another user
PrivateOfAnother(item, userID) ==
    /\ Has(item, "Public") /\ item.Public = FALSE
    /\ Has(item, "CreatedBy") /\ item.CreatedBy # userID

\* C30 as stated: a get by id whose store call succeeds, of a private program of
\* another user, is answered 401 "Unauthorized to view this program" without the
\* record.
C30_PrivateProgramRefused ==
    [][\A p \in Procs :
        /\ Part001ReadStep(p)
        /\ ~StoreFailed(resp'[p])
        /\ PrivateOfAnother(GetItem(loc[p].programID), loc[p].userID)
        => resp'[p] = ErrBody(StatusUnauthorized, "Unauthorized to view this program",
                              <<>>)]_vars

\* a user was answered 200 with the private program of another user
C30_PrivateProgramReturned ==
    \E p \in Procs :
        /\ pc[p] = "done"
        /\ req[p].op = Part001Op
        /\ resp[p].status = StatusOK
        /\ HasPath(req[p], "programId")
        /\ req[p].path.programId \in DOMAIN store
        /\ PrivateOfAnother(store[req[p].path.programId], Caller(req[p]))
        /\ resp[p].data.ID = req[p].path.programId
        /\ resp[p].data.Public = FALSE

=============================================================================
